---- MODULE Spec2Model ----
(***************************************************************************)
(* Verification model of git-ai-commit:                                    *)
(*   - TagCommand.handleTag (src/src/commands/tag.ts, lines 625-928), the  *)
(*     tag lifecycle controller, as a state machine with one action per    *)
(*     awaited call;                                                       *)
(*   - AIService.createStreamingCompletion (src/src/commands/ai.ts, lines  *)
(*     155-274), the request adapter with its retry chain and streaming    *)
(*     aggregation;                                                        *)
(*   - AIService.generateCommitMessage and cleanMessage (ai.ts 279-438),   *)
(*     the normalization of the generated commit message;                  *)
(*   - CommitCommand.handleCommit (src/src/commands/commit.ts, lines       *)
(*     29-129), the commit flow.                                           *)
(***************************************************************************)
EXTENDS Integers, Sequences, FiniteSets, TLC

(***************************************************************************)
(* Bounds of the model.                                                    *)
(***************************************************************************)
\* number of remotes `git remote` may list
MaxRemotes == 2
\* number of comma-separated entries the user may type at the remote prompt
MaxSel == 2

(***************************************************************************)
(* Tag names.  A name is a text, a sequence of atoms: a digit, ".", "-",   *)
(* "v", or a word of letters ("pkg", "rc", "latest"), which the pattern of *)
(* incrementPatchVersion treats as it treats one letter.  <<>> stands for  *)
(* undefined, null and the empty string.                                   *)
(***************************************************************************)
\* the digits, DigitChars[k + 1] being the digit of value k
DigitChars == <<"0", "1", "2", "3", "4", "5", "6", "7", "8", "9">>

IsDigit(c) == \E k \in 1..10 : DigitChars[k] = c

RECURSIVE TokenValue(_)
\* parseInt(digits, 10) of a sequence of digits
TokenValue(digits) ==
    IF digits = <<>> THEN 0
    ELSE 10 * TokenValue(SubSeq(digits, 1, Len(digits) - 1))
         + (CHOOSE k \in 0..9 : DigitChars[k + 1] = digits[Len(digits)])

RECURSIVE ToDigits(_)
\* the decimal digits of a natural number, as a template literal writes it
ToDigits(n) ==
    IF n < 10 THEN <<DigitChars[n + 1]>>
    ELSE Append(ToDigits(n \div 10), DigitChars[(n % 10) + 1])

NoName == <<>>

\* the tag v1.0.p
SemTag(p) == <<"v", "1", ".", "0", ".">> \o ToDigits(p)

\* a tag with a prefix, no "v", a patch number that ends in 9, and a suffix
PkgTag == <<"pkg", "-", "2", ".", "1", "0", ".", "9", "-", "rc", ".", "1">>

\* a tag without a major.minor.patch triple
BadTag == <<"latest", "-", "1", ".", "0">>

\* the end of the digits that start at position i (i - 1 if there are none):
\* \d+ is greedy, and what follows it in the pattern never matches a digit
DigitRunEnd(s, i) ==
    LET ends == {j \in i..Len(s) : \A k \in i..j : IsDigit(s[k])}
    IN  IF ends = {} THEN i - 1 ELSE CHOOSE j \in ends : \A k \in ends : k <= j

\* tag.ts 596: the match of (v?)(\d+)\.(\d+)\.(\d+) that starts at position
\* q, as the positions <<first, last>> of the patch digits, <<>> if none
TripleAt(s, q) ==
    LET major == IF s[q] = "v" THEN q + 1 ELSE q
        majorEnd == DigitRunEnd(s, major)
        minorEnd == DigitRunEnd(s, majorEnd + 2)
        patchEnd == DigitRunEnd(s, minorEnd + 2)
    IN  IF /\ majorEnd >= major
           /\ majorEnd + 2 <= Len(s) /\ s[majorEnd + 1] = "."
           /\ minorEnd >= majorEnd + 2
           /\ minorEnd + 2 <= Len(s) /\ s[minorEnd + 1] = "."
           /\ patchEnd >= minorEnd + 2
        THEN <<minorEnd + 2, patchEnd>> ELSE <<>>

\* variant: the text after the patch number is dropped
incrementPatchVersion_NoSuffix(version) ==
    LET starts == {q \in DOMAIN version : TripleAt(version, q) # <<>>}
    IN  IF starts = {} THEN NoName
        ELSE LET q == CHOOSE p \in starts : \A r \in starts : p <= r
                 patch == TripleAt(version, q)
                 newPatch == TokenValue(SubSeq(version, patch[1], patch[2])) + 1
             IN  SubSeq(version, 1, patch[1] - 1) \o ToDigits(newPatch)

\* tag.ts 594-603: /^(.*?-?)?(v?)(\d+)\.(\d+)\.(\d+)(.*)$/ matches at the
\* first position where a triple starts (the prefix is lazy); null (NoName)
\* when there is none, else the text with the patch number replaced by
\* parseInt(patch, 10) + 1
incrementPatchVersion(version) ==
    LET starts == {q \in DOMAIN version : TripleAt(version, q) # <<>>}
    IN  IF starts = {} THEN NoName
        ELSE LET q == CHOOSE p \in starts : \A r \in starts : p <= r
                 patch == TripleAt(version, q)
                 newPatch == TokenValue(SubSeq(version, patch[1], patch[2])) + 1
             IN  SubSeq(version, 1, patch[1] - 1) \o ToDigits(newPatch)
                 \o SubSeq(version, patch[2] + 1, Len(version))

\* names the user may pass on the command line (undefined or a name)
TagNameArgs == {NoName, SemTag(3)}

\* results of GitService.getLatestTag: no tag, or the latest tag
LatestTags == {NoName, SemTag(2), PkgTag, BadTag}

\* values of --base-tag
BaseTagArgs == {NoName, SemTag(2), SemTag(3)}

\* \s
IsSpace(c) == c \in {" ", "\n", "\t"}

RECURSIVE trimStart(_)
trimStart(s) ==
    IF s # <<>> /\ IsSpace(Head(s)) THEN trimStart(Tail(s)) ELSE s

RECURSIVE trimEnd(_)
\* ai.ts 368: replace(/[\s\t]+$/, '')
trimEnd(s) ==
    IF s # <<>> /\ IsSpace(s[Len(s)])
    THEN trimEnd(SubSeq(s, 1, Len(s) - 1)) ELSE s

\* String.prototype.trim
trim(s) == trimEnd(trimStart(s))

\* --message: absent, or a text (a sequence of atoms, see the texts below)
NoMessage == [given |-> FALSE, text |-> <<>>]
Message(text) == [given |-> TRUE, text |-> text]
MessageArgs == {NoMessage, Message(<<" ">>), Message(<<"m">>),
                Message(<<" ", "m", "\n">>)}

\* what generateTagNotes returns as notes (ai.ts 481-492, never empty)
AINotes == <<"notes">>

\* tag.ts 737: options.message?.trim(), <<>> standing for undefined and ''
tagMessageOf_Verbatim(opt) == opt.text
tagMessageOf(opt) == IF opt.given THEN trim(opt.text) ELSE <<>>

VARIABLES
    tpc,              \* position of handleTag (state of the controller)
    tagName,          \* argument [name] of the command
    options,          \* TagOptions: message given?, baseTag
    trimmedName,      \* the resolved tag name
    localTagExists,   \* tag.ts 669
    remoteTagExists,  \* tag.ts 670
    previousTagMessage, \* tag.ts 671
    baseTag,          \* tag.ts 742
    styleReferenceMessage, \* tag.ts 754
    tagMessage,       \* tag.ts 737
    remotes,          \* tag.ts 856
    selectedRemotes,  \* tag.ts 861
    pushIdx,          \* index of the for-of loops at tag.ts 883 / 901
    inFlight,         \* the remotes of the pushes that were started and have
                      \* not completed yet
    prompt,           \* while selectRemotesForPush runs: <<the answer read at
                      \* its prompt, with the selection it gives>>, else <<>>
    calls,            \* trace of the calls made to GitService, AIService and the prompts
    logs,             \* statuses appended through LogService.append
    exitCode          \* process exit status (process.exit(1) sets 1)

tagVars == <<tpc, tagName, options, trimmedName, localTagExists, remoteTagExists,
             previousTagMessage, baseTag, styleReferenceMessage, tagMessage,
             remotes, selectedRemotes, pushIdx, inFlight, prompt, calls, logs, exitCode>>

VARIABLES
    apc,              \* position of createStreamingCompletion
    verbose,          \* AIService.verbose (ai.ts 50)
    model,            \* AIService.model (ai.ts 47)
    fallbackModel,    \* AIService.fallbackModel (ai.ts 48), "none" if undefined
    request,          \* the request of the current attempt
    attempt,          \* the attempt parameter (ai.ts 157)
    requestsIssued,   \* number of openai.chat.completions.create calls made
    waitingTimer,     \* TRUE while the setInterval timer is set (ai.ts 159)
    timers,           \* number of setInterval timers that are set and not
                      \* cleared, whichever invocation set them
    phase,            \* ai.ts 181
    contentChunks,    \* ai.ts 178
    reasoningTokens,  \* ai.ts 179
    contentTokens,    \* ai.ts 180
    lastDelta,        \* the delta processed last in this session
    chunksSeen,       \* number of deltas the session has delivered
    deltaLog,         \* the deltas the session has delivered, in arrival order
    discarded,        \* TRUE when the attempt that failed last had
                      \* received content
    corrections,      \* how many corrections of each kind the catch block
                      \* has made in this call and its recursive calls
    failedRequest,    \* <<the request object of the failed attempt>> as the
                      \* catch block leaves it, <<>> outside the catch block
    caught,           \* <<error>> while the catch block of ai.ts 239 handles
                      \* or has rethrown an error (its classification), else <<>>
    twin,             \* the same call made by a service whose verbose flag is
                      \* the opposite, fed the same provider responses
    caller,           \* the generate operation that makes the call
    gpc,              \* position of that operation: "await" or "done"
    rejection,        \* the value its catch block has caught
    outcome,          \* the result it returns
    result            \* the returned string

\* the variables of the three generate operations
genVars == <<caller, gpc, rejection, outcome>>

aiVars == <<apc, verbose, model, fallbackModel, request, attempt, requestsIssued,
            waitingTimer, timers, phase, contentChunks, reasoningTokens,
            contentTokens,
            lastDelta, chunksSeen, deltaLog, discarded, corrections, failedRequest,
            caught, twin,
            result, genVars>>

VARIABLES
    npc,              \* position of generateCommitMessage after the session
    content,          \* the text the session returned (ai.ts 318)
    finalMessage,     \* ai.ts 337
    commitResult,     \* the CommitGenerationResult that is returned
    renormalized      \* the normalization of the returned message

normVars == <<npc, content, finalMessage, commitResult, renormalized>>

VARIABLES
    cpc,              \* position of handleCommit
    commitOptions,    \* CommitOptions: push, messageOnly (commit.ts 7-13)
    existingConfig,   \* ConfigService.getConfig(): autoPush (commit.ts 31)
    aiResult,         \* what generateCommitMessage returned (commit.ts 68)
    commitCalls,      \* trace of the prompt and of the GitService calls
    commitExit        \* process exit status

commitVars == <<cpc, commitOptions, existingConfig, aiResult, commitCalls,
                commitExit>>

vars == <<tagVars, aiVars, normVars, commitVars>>

\* nothing caught
NoRejection == [instanceOfError |-> FALSE, message |-> <<>>]

\* no result yet
NoResult == [success |-> FALSE, message |-> <<>>, error |-> <<>>]

\* no correction made yet
NoCorrections == [temperature |-> 0, token |-> 0, model |-> 0]

Call(op, arg, res) == [op |-> op, arg |-> arg, res |-> res]

\* the list 1..n as the sequence of remotes `git remote` prints
RemoteList(n) == [i \in 1..n |-> i]

RECURSIVE SeqsUpTo(_, _)
\* all sequences over S of length 1..n
SeqsUpTo(S, n) ==
    IF n = 0 THEN {}
    ELSE LET shorter == SeqsUpTo(S, n - 1)
         IN  {<<x>> : x \in S} \cup shorter
             \cup {Append(s, x) : s \in shorter, x \in S}

RECURSIVE LeadingDigits(_)
\* the longest prefix of a token that consists of digits
LeadingDigits(tok) ==
    IF tok # <<>> /\ IsDigit(Head(tok))
    THEN <<Head(tok)>> \o LeadingDigits(Tail(tok)) ELSE <<>>

\* the value parseInt gives a text that does not begin with a number
NaN == -1

\* tag.ts 963: parseInt(sel, 10) reads the digits the token begins with and
\* ignores whatever follows them
parseInt(tok) ==
    IF LeadingDigits(tok) = <<>> THEN NaN ELSE TokenValue(LeadingDigits(tok))

\* the entries of a comma list typed at the prompt of n remotes, trimmed
\* (tag.ts 959): the empty entry, a letter, a number, a number followed by a
\* letter, a two-digit number
Tokens(n) ==
    LET digits == {DigitChars[k + 1] : k \in 0..(n + 1)}
    IN  {<<>>, <<"x">>} \cup {<<d>> : d \in digits}
        \cup {<<d, "x">> : d \in digits} \cup {<<"1", d>> : d \in digits}

\* answers typed at the remote prompt (tag.ts 943-959): "n" (also "no" and
\* the empty line), "all", or a comma list of entries
Answers(n) ==
    {[kind |-> "n", list |-> <<>>], [kind |-> "all", list |-> <<>>]}
    \cup {[kind |-> "list", list |-> l] : l \in SeqsUpTo(Tokens(n), MaxSel)}

\* an entry that is a number between 1 and n
IsIndex(tok, n) ==
    /\ tok # <<>>
    /\ \A i \in DOMAIN tok : IsDigit(tok[i])
    /\ TokenValue(tok) \in 1..n

\* what is kept of an answer in the trace: its kind, whether every entry of
\* the list is an index of a remote, and if so the indexes in the order typed
Typed(answer, n) ==
    LET plain == \A i \in DOMAIN answer.list : IsIndex(answer.list[i], n)
    IN  [kind |-> answer.kind,
         plain |-> plain,
         indexes |-> IF plain
                     THEN [i \in DOMAIN answer.list |-> TokenValue(answer.list[i])]
                     ELSE <<>>]

RECURSIVE PickRemotes(_, _, _)
\* tag.ts 962-972: the loop over the selections; <<>> stands for the early
\* `return null` of an invalid selection
PickRemotes(rems, selections, acc) ==
    IF selections = <<>> THEN acc
    ELSE LET index == parseInt(Head(selections))
         IN  IF index = NaN \/ index < 1 \/ index > Len(rems)
             THEN <<>>
             ELSE LET remote == rems[index]
                      present == \E k \in 1..Len(acc) : acc[k] = remote
                  IN  PickRemotes(rems, Tail(selections),
                                  IF present THEN acc ELSE Append(acc, remote))

\* tag.ts 930-975: the selection the prompt returns; null is modelled as <<>>
\* (the caller treats null and the empty list alike, tag.ts 863)
selectRemotesForPush(rems, answer) ==
    IF answer.kind = "n" THEN <<>>
    ELSE IF answer.kind = "all" THEN rems
    ELSE PickRemotes(rems, answer.list, <<>>)

\* tag.ts 861: what the prompt can return for n listed remotes, one entry
\* per number of remotes (the answers are enumerated once)
SelectionsFor ==
    [n \in 0..MaxRemotes |->
        {[typed |-> Typed(answer, n),
          selected |-> selectRemotesForPush(RemoteList(n), answer)] :
             answer \in Answers(n)}]

(***************************************************************************)
(* Decisions of handleTag, one operator per branch of the code.            *)
(***************************************************************************)
\* variant: the answer of the delete prompt is not looked at
NextAfterConfirmDelete_Ignored(shouldDelete) == "CheckRemote"

\* tag.ts 680-693
NextAfterConfirmDelete(shouldDelete) ==
    IF shouldDelete THEN "CheckRemote" ELSE "Cancelled"

\* variant: the remote is asked about a tag that is absent locally
NextAfterCheckLocal_QueriesRemote(exists) ==
    IF exists THEN "ConfirmDelete" ELSE "CheckRemote"

\* tag.ts 673-678, 735-737: if (localTagExists)
NextAfterCheckLocal(exists) ==
    IF exists THEN "ConfirmDelete" ELSE "ResolveMessage"

\* tag.ts 695
NextAfterCheckRemote(exists) ==
    IF exists THEN "ConfirmRemoteDelete" ELSE "DeleteLocal"

\* variant: the remote tag is deleted whatever the user answers
NextAfterConfirmRemoteDelete_Ignored(shouldDeleteRemote) == "DeleteRemote"

\* tag.ts 699-721
NextAfterConfirmRemoteDelete(shouldDeleteRemote) ==
    IF shouldDeleteRemote THEN "DeleteRemote" ELSE "DeleteLocal"

\* tag.ts 702-715
NextAfterDeleteRemote(remoteDeleted) ==
    IF remoteDeleted THEN "DeleteLocal" ELSE "Failed"

\* variant: the flag is left as the query set it
RemoteFlagAfterDelete_Kept(flag) == flag

\* tag.ts 715: the flag after a successful remote deletion
RemoteFlagAfterDelete(flag) == FALSE

\* variant: a failed local deletion does not end the run
NextAfterDeleteLocal_GoesOn(localDeleted) == "ResolveMessage"

\* tag.ts 722-735
NextAfterDeleteLocal(localDeleted) ==
    IF localDeleted THEN "ResolveMessage" ELSE "Failed"

\* variant: the message of every known base tag is fetched
NeedsStyleReference_AnyBase(base, name) == base # NoName

\* tag.ts 755: baseTag && baseTag !== trimmedName
NeedsStyleReference(base, name) == base # NoName /\ base # name

\* variant: the style reference is attached whenever there is one
UserContent_Both(previousMessage, styleReference) ==
    <<"Commit log:">>
    \o (IF styleReference # "null"
        THEN <<"Style reference (follow this format):", styleReference>>
        ELSE <<>>)
    \o (IF previousMessage # "null"
        THEN <<"Previous release notes for this tag (improve upon this):",
               previousMessage>>
        ELSE <<>>)

\* ai.ts 456-464: the user message of the request generateTagNotes sends
UserContent(previousMessage, styleReference) ==
    <<"Commit log:">>
    \o (IF styleReference # "null" /\ previousMessage = "null"
        THEN <<"Style reference (follow this format):", styleReference>>
        ELSE <<>>)
    \o (IF previousMessage # "null"
        THEN <<"Previous release notes for this tag (improve upon this):",
               previousMessage>>
        ELSE <<>>)

\* variant: a failed generation does not end the run
NextAfterGenerate_GoesOn(ok) == "ConfirmCreate"

\* tag.ts 804-817: !aiResult.success || !aiResult.notes ends the run
NextAfterGenerate(ok) == IF ok THEN "ConfirmCreate" ELSE "Failed"

\* variant: the tag is created whatever the user answers
NextAfterConfirmCreate_Ignored(shouldCreate) == "CreateTag"

\* tag.ts 825-837
NextAfterConfirmCreate(shouldCreate) ==
    IF shouldCreate THEN "CreateTag" ELSE "Cancelled"

\* variant: a failed creation is tried again
NextAfterCreateTag_Retries(created) ==
    IF created THEN "GetRemotes" ELSE "CreateTag"

\* tag.ts 840-856
NextAfterCreateTag(created) ==
    IF created THEN "GetRemotes" ELSE "Failed"

\* variant: force push is always asked for
NeedsForcePush_Always(remoteExists) == TRUE

\* tag.ts 865
NeedsForcePush(remoteExists) == remoteExists

\* tag.ts 863-867, 900
NextAfterSelect(selected, remoteExists) ==
    IF Len(selected) > 0
    THEN (IF NeedsForcePush(remoteExists) THEN "ConfirmForcePush" ELSE "PushEach")
    ELSE "Finish"

\* variant: the force push goes on whatever the user answers
NextAfterConfirmForcePush_Ignored(shouldForcePush) == "ForcePushEach"

\* tag.ts 871-883
NextAfterConfirmForcePush(shouldForcePush) ==
    IF shouldForcePush THEN "ForcePushEach" ELSE "Cancelled"

\* variant: only the first selected remote is force pushed to
PushOpFor_FirstOnly(loop, idx) ==
    IF loop = "ForcePushEach" /\ idx = 1 THEN "forcePushTag" ELSE "pushTagToRemote"

\* tag.ts 883-885, 901-903: the push every iteration of a loop makes
PushOpFor(loop, idx) ==
    IF loop = "ForcePushEach" THEN "forcePushTag" ELSE "pushTagToRemote"

\* variant: the loop does not await the push it has started
CanIssue_Unawaited(flight) == TRUE

\* tag.ts 885, 903: `await`, the loop body is suspended until the push it
\* started has completed, so it starts a push only when none is pending
CanIssue(flight) == flight = <<>>

\* variant: a failed push ends the run with process.exit(1)
NextAfterPush_ExitOnFailure(loop, pushSuccess, idx, n) ==
    IF ~pushSuccess THEN "Failed" ELSE IF idx < n THEN loop ELSE "Finish"

\* tag.ts 883-899, 901-917: a failed push is logged and the loop goes on
NextAfterPush(loop, pushSuccess, idx, n) ==
    IF idx < n THEN loop ELSE "Finish"

\* tag.ts 889-897, 907-915: what a push result appends to the log
LogAfterPush(pushSuccess) ==
    IF pushSuccess THEN <<>> ELSE <<"failure">>

\* the LogService.append of each way out of handleTag
LogFor(next) ==
    IF next = "Failed" THEN <<"failure">>
    ELSE IF next = "Cancelled" THEN <<"cancelled">>
    ELSE IF next = "Done" THEN <<"success">>
    ELSE <<>>

\* variant: a cancelled run exits with status 1 too
ExitFor_CancelExits(next, code) ==
    IF next \in {"Failed", "Cancelled"} THEN 1 ELSE code

\* process.exit(1) on every failure path
ExitFor(next, code) == IF next = "Failed" THEN 1 ELSE code

(***************************************************************************)
(* handleTag, tag.ts 625-928.                                              *)
(***************************************************************************)
\* the adapter at rest, while the tag command runs
AIIdle ==
    /\ apc = "create"
    /\ verbose = TRUE
    /\ model = "primary"
    /\ fallbackModel = "none"
    /\ request = [model |-> "primary", messages |-> <<"system", "user">>,
                  temperature |-> FALSE,
                  max_tokens |-> 0, max_completion_tokens |-> 3000]
    /\ attempt = 0
    /\ requestsIssued = 0
    /\ waitingTimer = FALSE
    /\ timers = 0
    /\ phase = "waiting"
    /\ contentChunks = <<>>
    /\ reasoningTokens = 0
    /\ contentTokens = 0
    /\ lastDelta = [reasoning |-> FALSE, content |-> <<>>]
    /\ chunksSeen = 0
    /\ deltaLog = <<>>
    /\ discarded = FALSE
    /\ corrections = NoCorrections
    /\ failedRequest = <<>>
    /\ caught = <<>>
    /\ twin = [apc |-> "create",
               request |-> [model |-> "primary",
                            messages |-> <<"system", "user">>,
                            temperature |-> FALSE,
                            max_tokens |-> 0, max_completion_tokens |-> 3000],
               attempt |-> 0, requestsIssued |-> 0, waitingTimer |-> FALSE,
               phase |-> "waiting", contentChunks |-> <<>>, caught |-> <<>>,
               result |-> <<>>]
    /\ result = <<>>
    /\ caller = "generateTagNotes"
    /\ gpc = "await"
    /\ rejection = NoRejection
    /\ outcome = NoResult

\* generateCommitMessage at rest
NormIdle ==
    /\ npc = "content"
    /\ content = <<>>
    /\ finalMessage = <<>>
    /\ commitResult = NoResult
    /\ renormalized = <<>>

\* handleCommit at rest
CommitIdle ==
    /\ cpc = "Config"
    /\ commitOptions = [push |-> FALSE, messageOnly |-> FALSE]
    /\ existingConfig = [autoPush |-> FALSE]
    /\ aiResult = [success |-> FALSE, typeofMessage |-> "undefined",
                   message |-> <<>>]
    /\ commitCalls = <<>>
    /\ commitExit = 0

TagInit ==
    /\ AIIdle
    /\ NormIdle
    /\ CommitIdle
    /\ tpc = "Start"
    /\ tagName \in TagNameArgs
    /\ options \in [message : MessageArgs, baseTag : BaseTagArgs]
    /\ trimmedName = NoName
    /\ localTagExists = FALSE
    /\ remoteTagExists = FALSE
    /\ previousTagMessage = "null"
    /\ baseTag = NoName
    /\ styleReferenceMessage = "null"
    /\ tagMessage = <<>>
    /\ remotes = <<>>
    /\ selectedRemotes = <<>>
    /\ pushIdx = 1
    /\ inFlight = <<>>
    /\ prompt = <<>>
    /\ calls = <<>>
    /\ logs = <<>>
    /\ exitCode = 0

\* move to the next position, recording the calls made and the log entry and
\* exit status of a way out
Goto(next, made) ==
    /\ tpc' = next
    /\ calls' = calls \o made
    /\ logs' = logs \o LogFor(next)
    /\ exitCode' = ExitFor(next, exitCode)
    /\ UNCHANGED <<aiVars, normVars, commitVars>>

\* tag.ts 629-666: resolve the name, auto-incrementing the latest tag
Start ==
    /\ tpc = "Start"
    /\ IF trim(tagName) # <<>>
       THEN /\ trimmedName' = trim(tagName)
            /\ Goto("CheckLocal", <<>>)
       ELSE \E latest \in LatestTags :
              LET newVersion == incrementPatchVersion(latest)
                  made == <<Call("getLatestTag", latest, latest # NoName)>>
              IN  IF latest = NoName \/ newVersion = NoName
                  THEN /\ trimmedName' = trimmedName
                       /\ Goto("Failed", made)
                  ELSE /\ trimmedName' = newVersion
                       /\ Goto("CheckLocal", made)
    /\ UNCHANGED <<tagName, options, localTagExists, remoteTagExists,
                   previousTagMessage, baseTag, styleReferenceMessage, tagMessage,
                   remotes, selectedRemotes, pushIdx, inFlight, prompt>>

\* tag.ts 669-677: local existence and, if the tag exists, its message
CheckLocal ==
    /\ tpc = "CheckLocal"
    /\ \E exists \in BOOLEAN, msg \in {"null", "prev"} :
          /\ localTagExists' = exists
          /\ IF exists
             THEN /\ previousTagMessage' = msg
                  /\ Goto(NextAfterCheckLocal(TRUE),
                          <<Call("tagExists", 0, TRUE),
                            Call("getTagMessage", trimmedName, msg # "null")>>)
             ELSE /\ msg = "null"
                  /\ previousTagMessage' = previousTagMessage
                  /\ Goto(NextAfterCheckLocal(FALSE),
                          <<Call("tagExists", 0, FALSE)>>)
    /\ UNCHANGED <<tagName, options, trimmedName, remoteTagExists, baseTag,
                   styleReferenceMessage, tagMessage, remotes, selectedRemotes, pushIdx, inFlight, prompt>>

\* tag.ts 678-690
ConfirmDelete ==
    /\ tpc = "ConfirmDelete"
    /\ \E shouldDelete \in BOOLEAN :
          Goto(NextAfterConfirmDelete(shouldDelete),
               <<Call("confirmTagDelete", 0, shouldDelete)>>)
    /\ UNCHANGED <<tagName, options, trimmedName, localTagExists, remoteTagExists,
                   previousTagMessage, baseTag, styleReferenceMessage, tagMessage,
                   remotes, selectedRemotes, pushIdx, inFlight, prompt>>

\* tag.ts 693-696
CheckRemote ==
    /\ tpc = "CheckRemote"
    /\ \E exists \in BOOLEAN :
          /\ remoteTagExists' = exists
          /\ Goto(NextAfterCheckRemote(exists), <<Call("remoteTagExists", 0, exists)>>)
    /\ UNCHANGED <<tagName, options, trimmedName, localTagExists,
                   previousTagMessage, baseTag, styleReferenceMessage, tagMessage,
                   remotes, selectedRemotes, pushIdx, inFlight, prompt>>

\* tag.ts 697-699
ConfirmRemoteDelete ==
    /\ tpc = "ConfirmRemoteDelete"
    /\ \E shouldDeleteRemote \in BOOLEAN :
          Goto(NextAfterConfirmRemoteDelete(shouldDeleteRemote),
               <<Call("confirmRemoteTagDelete", 0, shouldDeleteRemote)>>)
    /\ UNCHANGED <<tagName, options, trimmedName, localTagExists, remoteTagExists,
                   previousTagMessage, baseTag, styleReferenceMessage, tagMessage,
                   remotes, selectedRemotes, pushIdx, inFlight, prompt>>

\* tag.ts 700-716
DeleteRemote ==
    /\ tpc = "DeleteRemote"
    /\ \E remoteDeleted \in BOOLEAN :
          /\ remoteTagExists' = IF remoteDeleted
                                THEN RemoteFlagAfterDelete(remoteTagExists)
                                ELSE remoteTagExists
          /\ Goto(NextAfterDeleteRemote(remoteDeleted),
                  <<Call("deleteRemoteTag", 0, remoteDeleted)>>)
    /\ UNCHANGED <<tagName, options, trimmedName, localTagExists,
                   previousTagMessage, baseTag, styleReferenceMessage, tagMessage,
                   remotes, selectedRemotes, pushIdx, inFlight, prompt>>

\* tag.ts 719-735
DeleteLocal ==
    /\ tpc = "DeleteLocal"
    /\ \E localDeleted \in BOOLEAN :
          Goto(NextAfterDeleteLocal(localDeleted),
               <<Call("deleteLocalTag", 0, localDeleted)>>)
    /\ UNCHANGED <<tagName, options, trimmedName, localTagExists, remoteTagExists,
                   previousTagMessage, baseTag, styleReferenceMessage, tagMessage,
                   remotes, selectedRemotes, pushIdx, inFlight, prompt>>

\* tag.ts 737-751: the trimmed --message when that is not empty; else the
\* notes are generated, the base tag being the --base-tag option or the latest
\* tag
ResolveMessage ==
    /\ tpc = "ResolveMessage"
    /\ tagMessage' = tagMessageOf(options.message)
    /\ IF tagMessageOf(options.message) # <<>>
       THEN /\ baseTag' = baseTag
            /\ Goto("ConfirmCreate", <<>>)
       ELSE IF options.baseTag # NoName
               THEN /\ baseTag' = options.baseTag
                    /\ Goto("StyleReference", <<>>)
               ELSE \E latest \in LatestTags :
                       /\ baseTag' = latest
                       /\ Goto("StyleReference",
                               <<Call("getLatestTag", latest, latest # NoName)>>)
    /\ UNCHANGED <<tagName, options, trimmedName, localTagExists, remoteTagExists,
                   previousTagMessage, styleReferenceMessage,
                   remotes, selectedRemotes, pushIdx, inFlight, prompt>>

\* tag.ts 753-760: the base tag's message, when the base tag is another tag
StyleReference ==
    /\ tpc = "StyleReference"
    /\ IF NeedsStyleReference(baseTag, trimmedName)
       THEN \E msg \in {"null", "style"} :
               /\ styleReferenceMessage' = msg
               /\ Goto("History",
                       <<Call("getTagMessage", baseTag, msg # "null")>>)
       ELSE /\ styleReferenceMessage' = styleReferenceMessage
            /\ Goto("History", <<>>)
    /\ UNCHANGED <<tagName, options, trimmedName, localTagExists, remoteTagExists,
                   previousTagMessage, baseTag, tagMessage,
                   remotes, selectedRemotes, pushIdx, inFlight, prompt>>

\* tag.ts 762-774
History ==
    /\ tpc = "History"
    /\ \E ok \in BOOLEAN :
          Goto(IF ok THEN "Config" ELSE "Failed",
               <<Call("getCommitSummariesSince", baseTag, ok)>>)
    /\ UNCHANGED <<tagName, options, trimmedName, localTagExists, remoteTagExists,
                   previousTagMessage, baseTag, styleReferenceMessage, tagMessage,
                   remotes, selectedRemotes, pushIdx, inFlight, prompt>>

\* tag.ts 776-792: resolveAIConfig throws when the configuration is invalid
Config ==
    /\ tpc = "Config"
    /\ \E ok \in BOOLEAN :
          Goto(IF ok THEN "Generate" ELSE "Failed",
               <<Call("resolveAIConfig", 0, ok)>>)
    /\ UNCHANGED <<tagName, options, trimmedName, localTagExists, remoteTagExists,
                   previousTagMessage, baseTag, styleReferenceMessage, tagMessage,
                   remotes, selectedRemotes, pushIdx, inFlight, prompt>>

\* tag.ts 794-817
Generate ==
    /\ tpc = "Generate"
    /\ \E ok \in BOOLEAN :
          /\ tagMessage' = IF ok THEN AINotes ELSE tagMessage
          /\ Goto(NextAfterGenerate(ok),
                  <<Call("generateTagNotes",
                         [previousMessage |-> previousTagMessage,
                          styleReference |-> styleReferenceMessage,
                          userContent |-> UserContent(previousTagMessage,
                                                      styleReferenceMessage)],
                         ok)>>)
    /\ UNCHANGED <<tagName, options, trimmedName, localTagExists, remoteTagExists,
                   previousTagMessage, baseTag, styleReferenceMessage,
                   remotes, selectedRemotes, pushIdx, inFlight, prompt>>

\* tag.ts 819-835
ConfirmCreate ==
    /\ tpc = "ConfirmCreate"
    /\ \E shouldCreate \in BOOLEAN :
          Goto(NextAfterConfirmCreate(shouldCreate),
               <<Call("confirmTagCreate", 0, shouldCreate)>>)
    /\ UNCHANGED <<tagName, options, trimmedName, localTagExists, remoteTagExists,
                   previousTagMessage, baseTag, styleReferenceMessage, tagMessage,
                   remotes, selectedRemotes, pushIdx, inFlight, prompt>>

\* tag.ts 837-853
CreateTag ==
    /\ tpc = "CreateTag"
    /\ \E created \in BOOLEAN :
          Goto(NextAfterCreateTag(created),
               <<Call("createAnnotatedTag", tagMessage, created)>>)
    /\ UNCHANGED <<tagName, options, trimmedName, localTagExists, remoteTagExists,
                   previousTagMessage, baseTag, styleReferenceMessage, tagMessage,
                   remotes, selectedRemotes, pushIdx, inFlight, prompt>>

\* tag.ts 855-860
GetRemotes ==
    /\ tpc = "GetRemotes"
    /\ \E n \in 0..MaxRemotes :
          /\ remotes' = RemoteList(n)
          /\ Goto(IF n = 0 THEN "Finish" ELSE "PromptRemotes",
                  <<Call("getRemotes", n, n > 0)>>)
    /\ UNCHANGED <<tagName, options, trimmedName, localTagExists, remoteTagExists,
                   previousTagMessage, baseTag, styleReferenceMessage, tagMessage,
                   selectedRemotes, pushIdx, inFlight, prompt>>

\* tag.ts 861, 931-947: selectRemotesForPush lists the remotes and reads the
\* answer
PromptRemotes ==
    /\ tpc = "PromptRemotes"
    /\ \E pick \in SelectionsFor[Len(remotes)] : prompt' = <<pick>>
    /\ Goto("SelectRemotes", <<>>)
    /\ UNCHANGED <<tagName, options, trimmedName, localTagExists, remoteTagExists,
                   previousTagMessage, baseTag, styleReferenceMessage, tagMessage,
                   remotes, selectedRemotes, pushIdx, inFlight>>

\* tag.ts 949-974, 861-867, 900: the selection returned for the answer, and
\* the force-push decision
SelectRemotes ==
    /\ tpc = "SelectRemotes"
    /\ LET selected == prompt[1].selected
       IN  /\ selectedRemotes' = selected
           /\ Goto(NextAfterSelect(selected, remoteTagExists),
                   <<Call("selectRemotesForPush", Len(selected), Len(selected) > 0)>>)
    /\ prompt' = <<>>
    /\ UNCHANGED <<tagName, options, trimmedName, localTagExists, remoteTagExists,
                   previousTagMessage, baseTag, styleReferenceMessage, tagMessage,
                   remotes, pushIdx, inFlight>>

\* tag.ts 868-881
ConfirmForcePush ==
    /\ tpc = "ConfirmForcePush"
    /\ \E shouldForcePush \in BOOLEAN :
          Goto(NextAfterConfirmForcePush(shouldForcePush),
               <<Call("confirmForcePush", 0, shouldForcePush)>>)
    /\ UNCHANGED <<tagName, options, trimmedName, localTagExists, remoteTagExists,
                   previousTagMessage, baseTag, styleReferenceMessage, tagMessage,
                   remotes, selectedRemotes, pushIdx, inFlight, prompt>>

\* tag.ts 885, 903: the loop body calls the push of the current remote
IssuePush ==
    /\ tpc \in {"ForcePushEach", "PushEach"}
    /\ pushIdx <= Len(selectedRemotes)
    /\ CanIssue(inFlight)
    /\ inFlight' = Append(inFlight, selectedRemotes[pushIdx])
    /\ UNCHANGED <<tpc, calls, logs, exitCode>>
    /\ UNCHANGED <<aiVars, normVars, commitVars>>
    /\ UNCHANGED <<tagName, options, trimmedName, localTagExists, remoteTagExists,
                   previousTagMessage, baseTag, styleReferenceMessage, tagMessage,
                   remotes, selectedRemotes, pushIdx, prompt>>

\* the rest of an iteration of a push loop: the awaited push completes, its
\* result is reported and logged, the loop goes to the next remote
PushStep(loop) ==
    /\ tpc = loop
    /\ pushIdx <= Len(selectedRemotes)
    /\ inFlight # <<>>
    /\ inFlight' = Tail(inFlight)
    /\ \E pushSuccess \in BOOLEAN :
          LET next == NextAfterPush(loop, pushSuccess, pushIdx, Len(selectedRemotes))
          IN  /\ tpc' = next
              /\ calls' = Append(calls, Call(PushOpFor(loop, pushIdx),
                                             selectedRemotes[pushIdx], pushSuccess))
              /\ logs' = logs \o LogAfterPush(pushSuccess) \o LogFor(next)
              /\ exitCode' = ExitFor(next, exitCode)
    /\ pushIdx' = pushIdx + 1
    /\ UNCHANGED <<aiVars, normVars, commitVars>>
    /\ UNCHANGED <<tagName, options, trimmedName, localTagExists, remoteTagExists,
                   previousTagMessage, baseTag, styleReferenceMessage, tagMessage,
                   remotes, selectedRemotes, prompt>>

\* tag.ts 883-899
ForcePushEach == PushStep("ForcePushEach")

\* tag.ts 901-917
PushEach == PushStep("PushEach")

\* tag.ts 922-927
Finish ==
    /\ tpc = "Finish"
    /\ Goto("Done", <<>>)
    /\ UNCHANGED <<tagName, options, trimmedName, localTagExists, remoteTagExists,
                   previousTagMessage, baseTag, styleReferenceMessage, tagMessage,
                   remotes, selectedRemotes, pushIdx, inFlight, prompt>>

TagNext ==
    \/ Start
    \/ CheckLocal
    \/ ConfirmDelete
    \/ CheckRemote
    \/ ConfirmRemoteDelete
    \/ DeleteRemote
    \/ DeleteLocal
    \/ ResolveMessage
    \/ StyleReference
    \/ History
    \/ Config
    \/ Generate
    \/ ConfirmCreate
    \/ CreateTag
    \/ GetRemotes
    \/ PromptRemotes
    \/ SelectRemotes
    \/ ConfirmForcePush
    \/ IssuePush
    \/ ForcePushEach
    \/ PushEach
    \/ Finish

(***************************************************************************)
(* Texts and the commit-message normalization of generateCommitMessage,    *)
(* ai.ts 279-306 and 337-430.  A text is a sequence of atoms: a word       *)
(* ("feat", "update", "x"), a preamble phrase, or a single character or    *)
(* marker (":", " ", "\n", "<", "**"; "backtick" is the character U+0060). *)
(* No pattern of ai.ts matches a part of a word, so a word behaves as one  *)
(* character does.                                                         *)
(***************************************************************************)
\* ai.ts 351, 369-371: the types of the header patterns (three of the eleven;
\* "fix" is also one of the words of ai.ts 357)
Types == {"chore", "feat", "fix"}

\* ai.ts 348: the preamble phrases
Preambles == {"The commit message is:", "Commit message:", "Message:"}

\* the atoms that do not begin with a word character (\w)
NonWordAtoms == {":", " ", "\n", "\t", "<", ">", "/", "backtick", "**", "(", ")", "!"}

\* the text from position i on
From(s, i) == SubSeq(s, i, Len(s))

\* the first position from i on that holds c, 0 if there is none
indexOf(s, c, i) ==
    LET hits == {k \in i..Len(s) : s[k] = c}
    IN  IF hits = {} THEN 0 ELSE CHOOSE k \in hits : \A m \in hits : k <= m

\* the first position from i on that holds no whitespace (Len(s) + 1 if none)
skipSpace(s, i) ==
    LET rest == {k \in i..Len(s) : ~IsSpace(s[k])}
    IN  IF rest = {} THEN Len(s) + 1
        ELSE CHOOSE k \in rest : \A m \in rest : k <= m

\* ai.ts 348: replace(/^(The commit message is:|Commit message:|Message:)\s*/, '')
stripPreamble(s) ==
    IF s # <<>> /\ Head(s) \in Preambles THEN trimStart(Tail(s)) ELSE s

\* the positions after an optional scope that starts at p: (\(.+\))?
AfterScope(s, p) ==
    {p} \cup {k + 1 : k \in {j \in (p + 2)..Len(s) :
                               /\ s[p] = "("
                               /\ s[j] = ")"
                               /\ \A m \in (p + 1)..(j - 1) : s[m] # "\n"}}

\* the positions after an optional "!": !?
AfterBang(s, P) ==
    P \cup {q + 1 : q \in {r \in P : r <= Len(s) /\ s[r] = "!"}}

\* the positions of the colon of ^(types)(\(.+\))?!?: when the type is at p
ColonsAfterType(s, p) ==
    IF p > Len(s) \/ s[p] \notin Types THEN {}
    ELSE {q \in AfterBang(s, AfterScope(s, p + 1)) : q <= Len(s) /\ s[q] = ":"}

\* ai.ts 351: /^(types)(\(.+\))?!?: .+/ tested on the whole text
startsWithHeader(s) ==
    \E q \in ColonsAfterType(s, 1) :
        q + 2 <= Len(s) /\ s[q + 1] = " " /\ s[q + 2] # "\n"

\* ai.ts 369: /^(types)(\(.+\))?!?:\s+.+/
headerPattern(l) ==
    \E q \in ColonsAfterType(l, 1) :
        \E r \in (q + 1)..(Len(l) - 1) :
            /\ \A k \in (q + 1)..r : IsSpace(l[k])
            /\ l[r + 1] # "\n"

\* ai.ts 371: /^(types)(\(.+\))?!?:\s*$/
typeOnlyPattern(l) ==
    \E q \in ColonsAfterType(l, 1) : \A k \in (q + 1)..Len(l) : IsSpace(l[k])

\* String.prototype.includes for the words of ai.ts 353-357: a word occurs in
\* the text as an atom of its own
includes(s, word) == \E i \in DOMAIN s : s[i] = word

\* variant: the rule for "fix" and "bug" is tried before the rule for
\* "version" and "update"
inferType_FixFirst(s) ==
    IF includes(s, "fix") \/ includes(s, "bug") THEN "fix"
    ELSE IF includes(s, "version") \/ includes(s, "update") THEN "chore"
    ELSE IF includes(s, "feature") \/ includes(s, "add") THEN "feat"
    ELSE "chore"

\* ai.ts 353-360: the type that is prepended
inferType(s) ==
    IF includes(s, "version") \/ includes(s, "update") THEN "chore"
    ELSE IF includes(s, "feature") \/ includes(s, "add") THEN "feat"
    ELSE IF includes(s, "fix") \/ includes(s, "bug") THEN "fix"
    ELSE "chore"

\* ai.ts 351-362
ensureHeader(s) ==
    IF startsWithHeader(s) THEN s ELSE <<inferType(s), ":", " ">> \o s

\* the position of the ">" that ends <\s*word\b[^>]*> when it starts at i,
\* 0 if it does not match there
openTagEnd(s, i, word) ==
    IF i > Len(s) \/ s[i] # "<" THEN 0
    ELSE LET w == skipSpace(s, i + 1)
         IN  IF w + 1 > Len(s) \/ s[w] # word \/ s[w + 1] \notin NonWordAtoms
             THEN 0
             ELSE indexOf(s, ">", w + 1)

\* the position of the ">" that ends <\s*\/\s*word\s*> when it starts at i,
\* 0 if it does not match there
closeTagEnd(s, i, word) ==
    IF i > Len(s) \/ s[i] # "<" THEN 0
    ELSE LET sl == skipSpace(s, i + 1)
         IN  IF sl > Len(s) \/ s[sl] # "/" THEN 0
             ELSE LET w == skipSpace(s, sl + 1)
                  IN  IF w > Len(s) \/ s[w] # word THEN 0
                      ELSE LET e == skipSpace(s, w + 1)
                           IN  IF e <= Len(s) /\ s[e] = ">" THEN e ELSE 0

\* the end of the block <word ...> ... </word> that starts at i, 0 if none
blockEnd(s, i, word) ==
    LET open == openTagEnd(s, i, word)
        closes == IF open = 0 THEN {}
                  ELSE {c \in (open + 1)..Len(s) : closeTagEnd(s, c, word) # 0}
    IN  IF closes = {} THEN 0
        ELSE closeTagEnd(s, CHOOSE c \in closes : \A d \in closes : c <= d, word)

RECURSIVE removeBlocks(_, _)
\* ai.ts 285-287: replace(thinkBlock, '') and replace(thinkingBlock, '')
removeBlocks(s, word) ==
    IF s = <<>> THEN <<>>
    ELSE LET e == blockEnd(s, 1, word)
         IN  IF e # 0 THEN removeBlocks(From(s, e + 1), word)
             ELSE <<Head(s)>> \o removeBlocks(Tail(s), word)

\* the end of <\/?\s*word\b[^>]*> when it starts at i, 0 if it does not match
strayTagEnd(s, i, word) ==
    IF i > Len(s) \/ s[i] # "<" THEN 0
    ELSE LET afterSlash == IF i + 1 <= Len(s) /\ s[i + 1] = "/"
                           THEN i + 2 ELSE i + 1
             w == skipSpace(s, afterSlash)
         IN  IF w + 1 > Len(s) \/ s[w] # word \/ s[w + 1] \notin NonWordAtoms
             THEN 0
             ELSE indexOf(s, ">", w + 1)

RECURSIVE removeStrayTags(_, _)
\* ai.ts 290-291
removeStrayTags(s, word) ==
    IF s = <<>> THEN <<>>
    ELSE LET e == strayTagEnd(s, 1, word)
         IN  IF e # 0 THEN removeStrayTags(From(s, e + 1), word)
             ELSE <<Head(s)>> \o removeStrayTags(Tail(s), word)

RECURSIVE removeTags(_)
\* ai.ts 294: replace(/<[^>]+>/g, '')
removeTags(s) ==
    IF s = <<>> THEN <<>>
    ELSE LET e == IF Head(s) = "<" THEN indexOf(s, ">", 2) ELSE 0
         IN  IF e >= 3 THEN removeTags(From(s, e + 1))
             ELSE <<Head(s)>> \o removeTags(Tail(s))

RECURSIVE unwrapEmphasis(_, _)
\* ai.ts 297-298: replace(/\*\*(.*?)\*\*/g, '$1'), and the same for __
unwrapEmphasis(s, mark) ==
    IF s = <<>> THEN <<>>
    ELSE LET e == IF Head(s) = mark THEN indexOf(s, mark, 2) ELSE 0
             nl == indexOf(s, "\n", 2)
         IN  IF e # 0 /\ (nl = 0 \/ nl > e)
             THEN SubSeq(s, 2, e - 1) \o unwrapEmphasis(From(s, e + 1), mark)
             ELSE <<Head(s)>> \o unwrapEmphasis(Tail(s), mark)

RECURSIVE unwrapCode(_)
\* ai.ts 299: a backtick, one or more characters that are not backticks,
\* and a backtick become the characters between them
unwrapCode(s) ==
    IF s = <<>> THEN <<>>
    ELSE LET e == IF Head(s) = "backtick" THEN indexOf(s, "backtick", 2) ELSE 0
         IN  IF e >= 3
             THEN SubSeq(s, 2, e - 1) \o unwrapCode(From(s, e + 1))
             ELSE <<Head(s)>> \o unwrapCode(Tail(s))

IsNotTab(c) == c # "\t"

\* ai.ts 302: replace(/[\t\r]+/g, '')
removeTabs(s) == SelectSeq(s, IsNotTab)

RECURSIVE collapseNewlines(_)
\* ai.ts 303: replace(/\n{3,}/g, '\n\n')
collapseNewlines(s) ==
    IF Len(s) >= 3 /\ s[1] = "\n" /\ s[2] = "\n" /\ s[3] = "\n"
    THEN LET after == CHOOSE k \in 4..(Len(s) + 1) :
                         /\ \A m \in 4..(k - 1) : s[m] = "\n"
                         /\ (k = Len(s) + 1 \/ s[k] # "\n")
         IN  <<"\n", "\n">> \o collapseNewlines(From(s, after))
    ELSE IF s = <<>> THEN <<>>
    ELSE <<Head(s)>> \o collapseNewlines(Tail(s))

\* ai.ts 279-306
cleanMessage(message) ==
    IF message = <<>> THEN message
    ELSE LET noBlocks == removeBlocks(removeBlocks(message, "think"), "thinking")
             noStray == removeStrayTags(removeStrayTags(noBlocks, "think"),
                                        "thinking")
             noTags == removeTags(noStray)
             noMarkdown == unwrapCode(unwrapEmphasis(
                               unwrapEmphasis(noTags, "**"), "__"))
         IN  trim(collapseNewlines(removeTabs(noMarkdown)))

RECURSIVE split(_)
\* String.prototype.split('\n')
split(s) ==
    LET nl == indexOf(s, "\n", 1)
    IN  IF nl = 0 THEN <<s>>
        ELSE <<SubSeq(s, 1, nl - 1)>> \o split(From(s, nl + 1))

RECURSIVE join(_)
\* Array.prototype.join('\n')
join(lines) ==
    IF lines = <<>> THEN <<>>
    ELSE IF Len(lines) = 1 THEN lines[1]
    ELSE lines[1] \o <<"\n">> \o join(Tail(lines))

RECURSIVE mapTrimEnd(_)
\* ai.ts 368: split('\n').map(l => l.replace(/[\s\t]+$/, ''))
mapTrimEnd(lines) ==
    IF lines = <<>> THEN <<>>
    ELSE <<trimEnd(Head(lines))>> \o mapTrimEnd(Tail(lines))

\* ai.ts 373: a line that starts with three backticks
IsNotFence(l) == ~(Len(l) >= 3 /\ l[1] = "backtick" /\ l[2] = "backtick" /\ l[3] = "backtick")

RECURSIVE dropBlank(_)
\* ai.ts 376, 381: while (lines.length && lines[0].trim() === '') lines.shift()
dropBlank(lines) ==
    IF lines # <<>> /\ trim(Head(lines)) = <<>>
    THEN dropBlank(Tail(lines)) ELSE lines

RECURSIVE dropTypeOnly(_)
\* ai.ts 379-382
dropTypeOnly(lines) ==
    IF lines # <<>> /\ typeOnlyPattern(Head(lines))
    THEN dropTypeOnly(dropBlank(Tail(lines))) ELSE lines

\* Array.prototype.findIndex(l => headerPattern.test(l)), counted from 1;
\* 0 if no line matches
findHeader(lines) ==
    LET hits == {i \in DOMAIN lines : headerPattern(lines[i])}
    IN  IF hits = {} THEN 0 ELSE CHOOSE i \in hits : \A j \in hits : i <= j

\* ai.ts 385-388
sliceAtFirstHeader(lines) ==
    LET idx == findHeader(lines)
    IN  IF idx > 1 THEN From(lines, idx) ELSE lines

\* ai.ts 392-398: the match of
\* /^(types):\s+(types)(\(.+\))?!?:\s+(.+)/ on a line, as the rewritten line;
\* <<>> if the line does not match
collapseDup(l) ==
    IF Len(l) < 3 \/ l[1] \notin Types \/ l[2] # ":" \/ ~IsSpace(l[3]) THEN <<>>
    ELSE LET t == skipSpace(l, 3)
             \* the colons that leave \s+(.+) a match (a line holds no "\n")
             colons == {q \in ColonsAfterType(l, t) :
                            q + 2 <= Len(l) /\ IsSpace(l[q + 1])}
             scoped == {q \in colons : q >= t + 4}
             q == IF scoped # {}
                  THEN CHOOSE x \in scoped : \A y \in scoped : x >= y
                  ELSE IF colons # {} THEN CHOOSE x \in colons : TRUE ELSE 0
         IN  IF q = 0 THEN <<>>
             ELSE LET scopeEnd == IF l[q - 1] = "!" THEN q - 2 ELSE q - 1
                      m3 == IF q >= t + 4 THEN SubSeq(l, t + 1, scopeEnd) ELSE <<>>
                      d == skipSpace(l, q + 1)
                      m4 == IF d <= Len(l) THEN From(l, d) ELSE <<l[Len(l)]>>
                  IN  <<l[t]>> \o m3 \o <<":", " ">> \o m4

\* ai.ts 391-400
dedupFirstLine(lines) ==
    IF lines # <<>> /\ collapseDup(lines[1]) # <<>>
    THEN <<collapseDup(lines[1])>> \o Tail(lines) ELSE lines

\* ai.ts 403-415: more than one blank line after the first line becomes one
collapseBlankAfterHeader(lines) ==
    IF Len(lines) > 1 /\ trim(lines[1]) # <<>>
    THEN LET rest == dropBlank(Tail(lines))
             blankCount == Len(lines) - 1 - Len(rest)
         IN  IF blankCount > 1 THEN <<lines[1], lines[blankCount + 1]>> \o rest
             ELSE lines
    ELSE lines

\* ai.ts 418-423
truncateAtNextHeader(lines) ==
    IF lines = <<>> THEN lines
    ELSE LET idx == findHeader(Tail(lines))
         IN  IF idx > 0 THEN SubSeq(lines, 1, idx) ELSE lines

\* ai.ts 365-425: the text that is returned for a message with a header
finishMessage(headed) ==
    LET cleaned == cleanMessage(headed)
        lines0 == SelectSeq(mapTrimEnd(split(cleaned)), IsNotFence)
        lines1 == dropTypeOnly(dropBlank(lines0))
        lines2 == dedupFirstLine(sliceAtFirstHeader(lines1))
        lines3 == truncateAtNextHeader(collapseBlankAfterHeader(lines2))
    IN  trim(join(lines3))

\* ai.ts 348-425: the normalization of a text
normalize(text) == finishMessage(ensureHeader(stripPreamble(text)))

\* number of lines of a generated raw text
MaxLines == 2

\* lines a model may answer with
LineForms ==
    {<<>>,
     <<"x">>,
     <<" ", "x", "\t">>,
     <<"chore", ":">>,
     <<"feat", ":", " ", "x">>,
     <<"fix", "(", "api", ")", ":", " ", "x">>,
     <<"chore", ":", " ", "feat", ":", " ", "fix", ":", " ", "x">>,
     <<"update", " ", "fix">>,
     <<"add", " ", "bug">>,
     <<"fix", " ", "x">>,
     <<"Message:", " ", "add", " ", "x">>,
     <<"<", "x", ">">>,
     <<"chore", ":", " ", "<", "x", ">">>,
     <<"<", "think", ">", "x", "<", "/", "think", ">">>,
     <<"**", "x", "**">>,
     <<"backtick", "backtick", "x", "backtick", "backtick">>,
     <<"backtick", "backtick", "backtick">>}

\* "The commit message is: update version to 2.0"
VersionText ==
    <<"The commit message is:", " ", "update", " ", "version", " ", "to", " ",
      "2.0">>

\* "chore:\nfeat(api): add retry\nfix: unrelated"
StrayTypeText ==
    <<"chore", ":", "\n",
      "feat", "(", "api", ")", ":", " ", "add", " ", "retry", "\n",
      "fix", ":", " ", "unrelated">>

\* a header, two lines of whitespace, and a body
SpacedBodyText ==
    <<"feat", ":", " ", "x", "\n", " ", "\n", " ", "\n", "x">>

\* the texts a streaming session may return to generateCommitMessage
RawTexts ==
    {join(ls) : ls \in SeqsUpTo(LineForms, MaxLines)}
    \cup {VersionText, StrayTypeText, SpacedBodyText}

\* the results of the generate operations (ai.ts 16-32); a field that the
\* result does not have is <<>>
Success(text) == [success |-> TRUE, message |-> text, error |-> <<>>]

Failure(text) == [success |-> FALSE, message |-> <<>>, error |-> text]

(***************************************************************************)
(* AIService.createStreamingCompletion, ai.ts 155-274.                     *)
(***************************************************************************)
\* number of deltas one streaming session may deliver
MaxChunks == 2
\* depth to which the retry chain is explored
MaxAttempts == 4
\* ai.ts 248: the bound on the attempt counter
TemperatureRetryLimit == 3

\* ai.ts 308, 440, 504: the operations that call createStreamingCompletion
Callers == {"generateCommitMessage", "generateTagNotes",
            "generatePullRequestMessage"}

\* ai.ts 334, 478, 531: the token limit of the operation's request
MaxCompletionTokens(op) ==
    IF op = "generatePullRequestMessage" THEN 4000 ELSE 3000

\* the request fields the adapter reads or rewrites; a token field of 0 is an
\* absent field, temperature says whether the field is present.  The callers
\* (ai.ts 318-335, 466-479, 514-532) pass the configured model and
\* max_completion_tokens 3000 or 4000; temperature is the optional field of
\* the request type
\* ai.ts 320-333, 452-476, 516-529: the system and the user message
Messages == <<"system", "user">>

InitialRequests ==
    [model : {"primary"}, messages : {Messages}, temperature : BOOLEAN,
     max_tokens : {0}, max_completion_tokens : {3000, 4000}]

\* the words of an error message the classifiers look for
Phrases == {"Unsupported parameter", "Unsupported value", "temperature",
            "max_tokens", "max_completion_tokens"}

\* provider errors: HTTP status, error code, error param, and the set of
\* phrases the message contains (empty also for an error without message)
Errors ==
    [status : {429, 500},
     code : {"unsupported_parameter", "unsupported_value", "other"},
     param : {"temperature", "max_tokens", "max_completion_tokens", "none"},
     message : SUBSET Phrases]

\* a delta: does it carry reasoning_content, and its content fragment
\* (<<>> is the absent or empty content, " " a fragment of whitespace)
Deltas == [reasoning : BOOLEAN, content : {<<>>, <<"a">>, <<" ">>}]

NoDelta == [reasoning |-> FALSE, content |-> <<>>]

\* ai.ts 59-63
isRateLimitError(error) == error.status = 429

\* ai.ts 65-93
isUnsupportedTokenParamError(error, param) ==
    \/ error.code = "unsupported_parameter" /\ error.param = param
    \/ "Unsupported parameter" \in error.message /\ param \in error.message

\* ai.ts 95-120
isUnsupportedValueError(error, param) ==
    \/ error.code = "unsupported_value" /\ error.param = param
    \/ "Unsupported value" \in error.message /\ param \in error.message

\* variant: the target field is set and the other field is left in place
swapTokenParam_KeepsBoth(req, targetParam) ==
    LET tokenValue == IF req.max_completion_tokens # 0
                      THEN req.max_completion_tokens ELSE req.max_tokens
    IN  IF targetParam = "max_tokens"
        THEN [req EXCEPT !.max_tokens = tokenValue]
        ELSE [req EXCEPT !.max_completion_tokens = tokenValue]

\* ai.ts 122-138
swapTokenParam(req, targetParam) ==
    LET tokenValue == IF req.max_completion_tokens # 0
                      THEN req.max_completion_tokens ELSE req.max_tokens
    IN  IF targetParam = "max_tokens"
        THEN [req EXCEPT !.max_tokens = tokenValue, !.max_completion_tokens = 0]
        ELSE [req EXCEPT !.max_tokens = 0, !.max_completion_tokens = tokenValue]

\* ai.ts 140-145
removeTemperature(req) == [req EXCEPT !.temperature = FALSE]

\* ai.ts 248-266: what the classifiers of the catch block say about an error
Classify(error) ==
    [unsupportedTemperature |-> isUnsupportedValueError(error, "temperature"),
     unsupportedMaxCompletionTokens |->
         isUnsupportedTokenParamError(error, "max_completion_tokens"),
     unsupportedMaxTokens |-> isUnsupportedTokenParamError(error, "max_tokens"),
     rateLimit |-> isRateLimitError(error)]

\* the classifications the provider errors give rise to
Classifications == {Classify(error) : error \in Errors}

\* variant: the model of the failed request is not compared
CanSubstitute_AnyFallback(req, fallback) == fallback # "none"

\* ai.ts 266: this.fallbackModel && request.model !== this.fallbackModel
CanSubstitute(req, fallback) == fallback # "none" /\ req.model # fallback

\* variant: the temperature rule does not look at the attempt counter
Correction_NoAttemptBound(class, req, att, fallback) ==
    IF class.unsupportedTemperature
    THEN "remove_temperature"
    ELSE IF class.unsupportedMaxCompletionTokens
    THEN "use_max_tokens"
    ELSE IF class.unsupportedMaxTokens
    THEN "use_max_completion_tokens"
    ELSE IF class.rateLimit /\ CanSubstitute(req, fallback)
    THEN "use_fallback_model"
    ELSE "throw"

\* ai.ts 248-272: the correction the catch block chooses for a classified error
Correction(class, req, att, fallback) ==
    IF att < TemperatureRetryLimit /\ class.unsupportedTemperature
    THEN "remove_temperature"
    ELSE IF class.unsupportedMaxCompletionTokens
    THEN "use_max_tokens"
    ELSE IF class.unsupportedMaxTokens
    THEN "use_max_completion_tokens"
    ELSE IF class.rateLimit /\ CanSubstitute(req, fallback)
    THEN "use_fallback_model"
    ELSE "throw"

\* variant: the correction is written into the request object it was given
ArgumentAfter_Assigned(req, derived) == derived

\* ai.ts 126-137, 143-144, 268: the request object a correction was given,
\* after the correction (the corrections destructure and spread: they read
\* the object and build a new one)
ArgumentAfter(req, derived) == req

\* the count of the corrections after one of the given kind
Counted(corr, kind) ==
    IF kind = "remove_temperature" THEN [corr EXCEPT !.temperature = @ + 1]
    ELSE IF kind \in {"use_max_tokens", "use_max_completion_tokens"}
    THEN [corr EXCEPT !.token = @ + 1]
    ELSE IF kind = "use_fallback_model" THEN [corr EXCEPT !.model = @ + 1]
    ELSE corr

\* variant: every retry also removes the temperature
FallbackRequest_AlsoTemperature(kind, req, fallback) ==
    IF kind = "remove_temperature" THEN removeTemperature(req)
    ELSE IF kind = "use_max_tokens"
    THEN removeTemperature(swapTokenParam(req, "max_tokens"))
    ELSE IF kind = "use_max_completion_tokens"
    THEN removeTemperature(swapTokenParam(req, "max_completion_tokens"))
    ELSE removeTemperature([req EXCEPT !.model = fallback])

\* ai.ts 249, 255, 261, 268: the request of the retry
FallbackRequest(kind, req, fallback) ==
    IF kind = "remove_temperature" THEN removeTemperature(req)
    ELSE IF kind = "use_max_tokens" THEN swapTokenParam(req, "max_tokens")
    ELSE IF kind = "use_max_completion_tokens"
    THEN swapTokenParam(req, "max_completion_tokens")
    ELSE [req EXCEPT !.model = fallback]

\* variant: the test is phase !== 'thinking' instead of phase === 'waiting'
PhaseAfterReasoning_WrongTest(ph, timer) ==
    IF ph # "thinking" THEN "thinking" ELSE ph

\* ai.ts 191-195: the phase after a delta with reasoning content
PhaseAfterReasoning(ph, timer) ==
    IF ph = "waiting" /\ timer THEN "thinking" ELSE ph

\* ai.ts 191-194: the timer after a delta with reasoning content
TimerAfterReasoning(ph, timer) ==
    IF ph = "waiting" /\ timer THEN FALSE ELSE timer

\* variant: content moves the phase only while it is waiting
PhaseAfterContent_FromWaitingOnly(ph) ==
    IF ph = "waiting" THEN "content" ELSE ph

\* ai.ts 208-214: the phase after a delta with content
PhaseAfterContent(ph) ==
    IF ph # "content" THEN "content" ELSE ph

\* ai.ts 208-212: the timer after a delta with content
TimerAfterContent(ph, timer) ==
    IF ph # "content" THEN FALSE ELSE timer

\* variant: the catch block leaves the timer running
TimerAfterCatch_Kept(timer) == timer

\* ai.ts 240-243: the catch block clears the timer if it is set
TimerAfterCatch(timer) == FALSE

\* clearInterval: one timer less when the handle goes from set to null
Cleared(count, before, after) ==
    IF before /\ ~after THEN count - 1 ELSE count

\* variant: the fragments of the failed session are kept
NewSessionChunks_Resumed(chunks) == chunks

\* ai.ts 178: contentChunks is a local of the invocation, declared empty
\* before the loop; a retry is a new invocation
NewSessionChunks(chunks) == <<>>

RECURSIVE Join(_)
\* variant: the text of the last fragment only
Join_LastChunk(chunks) ==
    IF chunks = <<>> THEN <<>> ELSE chunks[Len(chunks)]

\* ai.ts 238: contentChunks.join('')
Join(chunks) ==
    IF chunks = <<>> THEN <<>> ELSE Head(chunks) \o Join(Tail(chunks))

\* a call of createStreamingCompletion as a record: the call before its
\* first step (ai.ts 155-159)
NewRun(req) ==
    [apc |-> "create", request |-> req, attempt |-> 0, requestsIssued |-> 0,
     waitingTimer |-> FALSE, phase |-> "waiting", contentChunks |-> <<>>,
     caught |-> <<>>, result |-> <<>>]

\* ai.ts 159-176 on a call record whose service has verbose flag v
RunSend(run, v) ==
    [run EXCEPT !.apc = "pending", !.waitingTimer = v,
                !.requestsIssued = @ + 1, !.caught = <<>>]

\* ai.ts 173-181
RunOpen(run) ==
    [run EXCEPT !.apc = "stream", !.phase = "waiting", !.contentChunks = <<>>]

\* variant: the progress branch of a reasoning delta ends with continue, so
\* the content of the same delta is skipped while the phase is thinking
RunDelta_ContinueAfterProgress(run, delta) ==
    LET hasReasoning == delta.reasoning
        phase1 == IF hasReasoning
                  THEN PhaseAfterReasoning(run.phase, run.waitingTimer)
                  ELSE run.phase
        timer1 == IF hasReasoning
                  THEN TimerAfterReasoning(run.phase, run.waitingTimer)
                  ELSE run.waitingTimer
        hasContent == delta.content # <<>>
                      /\ ~(hasReasoning /\ phase1 = "thinking")
    IN  [run EXCEPT
           !.contentChunks = IF hasContent THEN Append(@, delta.content) ELSE @,
           !.phase = IF hasContent THEN PhaseAfterContent(phase1) ELSE phase1,
           !.waitingTimer = IF hasContent
                            THEN TimerAfterContent(phase1, timer1) ELSE timer1]

\* ai.ts 183-222
RunDelta(run, delta) ==
    LET hasReasoning == delta.reasoning
        phase1 == IF hasReasoning
                  THEN PhaseAfterReasoning(run.phase, run.waitingTimer)
                  ELSE run.phase
        timer1 == IF hasReasoning
                  THEN TimerAfterReasoning(run.phase, run.waitingTimer)
                  ELSE run.waitingTimer
        hasContent == delta.content # <<>>
    IN  [run EXCEPT
           !.contentChunks = IF hasContent THEN Append(@, delta.content) ELSE @,
           !.phase = IF hasContent THEN PhaseAfterContent(phase1) ELSE phase1,
           !.waitingTimer = IF hasContent
                            THEN TimerAfterContent(phase1, timer1) ELSE timer1]

\* ai.ts 224-238
RunComplete(run) ==
    [run EXCEPT !.apc = "returned", !.waitingTimer = FALSE,
                !.result = Join(run.contentChunks)]

\* ai.ts 239-273
RunFail(run, class, fallback) ==
    LET kind == Correction(class, run.request, run.attempt, fallback)
        cleared == [run EXCEPT !.waitingTimer = FALSE, !.phase = "waiting",
                               !.contentChunks = <<>>, !.caught = <<class>>]
    IN  IF kind = "throw"
        THEN [cleared EXCEPT !.apc = "thrown"]
        ELSE [cleared EXCEPT !.apc = "create",
                             !.request = FallbackRequest(kind, run.request, fallback),
                             !.attempt = @ + 1]

\* the twin call after a provider response that finds the observed call at
\* position at: the twin takes the same step of the code, and is marked as
\* having left the common path if it is not at that position
Fed(run, at, stepped) ==
    IF run.apc = at THEN stepped ELSE [run EXCEPT !.apc = "diverged"]

\* the tag command at rest, while the adapter runs
TagIdle ==
    /\ tpc = "Start"
    /\ tagName = NoName
    /\ options = [message |-> NoMessage, baseTag |-> NoName]
    /\ trimmedName = NoName
    /\ localTagExists = FALSE
    /\ remoteTagExists = FALSE
    /\ previousTagMessage = "null"
    /\ baseTag = NoName
    /\ styleReferenceMessage = "null"
    /\ tagMessage = <<>>
    /\ remotes = <<>>
    /\ selectedRemotes = <<>>
    /\ pushIdx = 1
    /\ inFlight = <<>>
    /\ prompt = <<>>
    /\ calls = <<>>
    /\ logs = <<>>
    /\ exitCode = 0

AIInit ==
    /\ TagIdle
    /\ NormIdle
    /\ CommitIdle
    /\ apc = "create"
    /\ verbose \in BOOLEAN
    /\ model = "primary"
    /\ fallbackModel \in {"none", "primary", "fallback"}
    /\ caller \in Callers
    /\ request \in {r \in InitialRequests :
                       r.max_completion_tokens = MaxCompletionTokens(caller)}
    /\ gpc = "await"
    /\ rejection = NoRejection
    /\ outcome = NoResult
    /\ attempt = 0
    /\ requestsIssued = 0
    /\ waitingTimer = FALSE
    /\ timers = 0
    /\ phase = "waiting"
    /\ contentChunks = <<>>
    /\ reasoningTokens = 0
    /\ contentTokens = 0
    /\ lastDelta = NoDelta
    /\ chunksSeen = 0
    /\ deltaLog = <<>>
    /\ discarded = FALSE
    /\ corrections = NoCorrections
    /\ failedRequest = <<>>
    /\ caught = <<>>
    /\ twin = NewRun(request)
    /\ result = <<>>

\* ai.ts 159-176: the timer is set in verbose mode and the request is sent
SendRequest ==
    /\ apc = "create"
    /\ apc' = "pending"
    /\ waitingTimer' = verbose
    /\ timers' = IF verbose THEN timers + 1 ELSE timers
    /\ requestsIssued' = requestsIssued + 1
    /\ caught' = <<>>
    /\ failedRequest' = <<>>
    /\ discarded' = FALSE
    /\ twin' = Fed(twin, "create", RunSend(twin, ~verbose))
    /\ UNCHANGED <<verbose, model, fallbackModel, request, attempt, phase,
                   contentChunks, reasoningTokens, contentTokens, lastDelta,
                   chunksSeen, deltaLog, result>>
    /\ UNCHANGED <<corrections, tagVars, normVars, genVars,
                   commitVars>>

\* ai.ts 173-181: the provider answers with a stream
OpenStream ==
    /\ apc = "pending"
    /\ apc' = "stream"
    /\ phase' = "waiting"
    /\ contentChunks' = NewSessionChunks(contentChunks)
    /\ reasoningTokens' = 0
    /\ contentTokens' = 0
    /\ lastDelta' = NoDelta
    /\ chunksSeen' = 0
    /\ deltaLog' = <<>>
    /\ twin' = Fed(twin, "pending", RunOpen(twin))
    /\ UNCHANGED <<verbose, model, fallbackModel, request, attempt,
                   requestsIssued, waitingTimer, timers, caught, result>>
    /\ UNCHANGED <<discarded, corrections, failedRequest, tagVars, normVars, genVars,
                   commitVars>>

\* ai.ts 183-222: one iteration of the for-await loop
Delta ==
    /\ apc = "stream"
    /\ chunksSeen < MaxChunks
    /\ \E delta \in Deltas :
          LET hasReasoning == delta.reasoning
              hasContent == delta.content # <<>>
              phase1 == IF hasReasoning
                        THEN PhaseAfterReasoning(phase, waitingTimer) ELSE phase
              timer1 == IF hasReasoning
                        THEN TimerAfterReasoning(phase, waitingTimer) ELSE waitingTimer
          IN  /\ reasoningTokens' = IF hasReasoning
                                    THEN reasoningTokens + 1 ELSE reasoningTokens
              /\ contentChunks' = IF hasContent
                                  THEN Append(contentChunks, delta.content)
                                  ELSE contentChunks
              /\ contentTokens' = IF hasContent
                                  THEN contentTokens + 1 ELSE contentTokens
              /\ phase' = IF hasContent THEN PhaseAfterContent(phase1) ELSE phase1
              /\ waitingTimer' = IF hasContent
                                 THEN TimerAfterContent(phase1, timer1) ELSE timer1
              /\ timers' = Cleared(timers, waitingTimer, waitingTimer')
              /\ lastDelta' = delta
              /\ deltaLog' = Append(deltaLog, delta)
              /\ twin' = Fed(twin, "stream", RunDelta(twin, delta))
    /\ chunksSeen' = chunksSeen + 1
    /\ UNCHANGED <<apc, verbose, model, fallbackModel, request, attempt,
                   requestsIssued, caught, result>>
    /\ UNCHANGED <<discarded, corrections, failedRequest, tagVars, normVars, genVars,
                   commitVars>>

\* ai.ts 224-238: end of stream, the joined content is returned
Complete ==
    /\ apc = "stream"
    /\ apc' = "returned"
    /\ waitingTimer' = FALSE
    /\ timers' = Cleared(timers, waitingTimer, waitingTimer')
    /\ result' = Join(contentChunks)
    /\ twin' = Fed(twin, "stream", RunComplete(twin))
    /\ UNCHANGED <<verbose, model, fallbackModel, request, attempt,
                   requestsIssued, phase, contentChunks, reasoningTokens,
                   contentTokens, lastDelta, chunksSeen, deltaLog, caught>>
    /\ UNCHANGED <<discarded, corrections, failedRequest, tagVars, normVars, genVars,
                   commitVars>>

\* ai.ts 239-273: the request or the stream fails; the catch block clears
\* the timer and either calls createStreamingCompletion again with a corrected
\* request (a new invocation, whose locals start afresh) or rethrows
Fail ==
    /\ apc \in {"pending", "stream"}
    /\ \E class \in Classifications :
          LET kind == Correction(class, request, attempt, fallbackModel)
          IN  /\ IF kind = "throw"
                 THEN /\ apc' = "thrown"
                      /\ UNCHANGED <<request, attempt>>
                 ELSE /\ attempt < MaxAttempts
                      /\ apc' = "create"
                      /\ request' = FallbackRequest(kind, request, fallbackModel)
                      /\ attempt' = attempt + 1
              /\ corrections' = Counted(corrections, kind)
              /\ discarded' = (contentChunks # <<>>)
              /\ failedRequest' =
                    IF kind = "throw" THEN <<request>>
                    ELSE <<ArgumentAfter(request,
                             FallbackRequest(kind, request, fallbackModel))>>
              /\ caught' = <<class>>
              /\ twin' = Fed(twin, apc, RunFail(twin, class, fallbackModel))
    /\ waitingTimer' = TimerAfterCatch(waitingTimer)
    /\ timers' = Cleared(timers, waitingTimer, waitingTimer')
    /\ phase' = "waiting"
    /\ contentChunks' = NewSessionChunks(contentChunks)
    /\ reasoningTokens' = 0
    /\ contentTokens' = 0
    /\ lastDelta' = NoDelta
    /\ chunksSeen' = 0
    /\ deltaLog' = <<>>
    /\ UNCHANGED <<verbose, model, fallbackModel, requestsIssued, result>>
    /\ UNCHANGED <<tagVars, normVars, genVars, commitVars>>

\* the order in which a message lists the phrases it contains
PhraseOrder == <<"Unsupported parameter", "Unsupported value", "temperature",
                 "max_tokens", "max_completion_tokens">>

RECURSIVE TextOf(_, _)
\* the message of an error as a text: the phrases it contains
TextOf(order, phrases) ==
    IF order = <<>> THEN <<>>
    ELSE (IF Head(order) \in phrases THEN <<Head(order)>> ELSE <<>>)
         \o TextOf(Tail(order), phrases)

\* the values a catch block may catch for an error of a classification: an
\* Error object with the message of such an error, or a value that is not
\* an instance of Error
Rejections ==
    [class \in Classifications |->
        [instanceOfError : BOOLEAN,
         message : {TextOf(PhraseOrder, error.message) :
                        error \in {e \in Errors : Classify(e) = class}}]]

\* ai.ts 341-344, 485-488, 537-540: the error of an empty generation
EmptyText(op) ==
    IF op = "generateCommitMessage" THEN <<"No commit message generated">>
    ELSE IF op = "generateTagNotes" THEN <<"No tag notes generated">>
    ELSE <<"No pull request message generated">>

\* ai.ts 435, 499, 551: the error text for a value that is not an Error
FailedText(op) ==
    IF op = "generateCommitMessage" THEN <<"Failed to generate commit message">>
    ELSE IF op = "generateTagNotes" THEN <<"Failed to generate tag notes">>
    ELSE <<"Failed to generate pull request message">>

\* variant: the text is not trimmed before the empty check
FinalContent_NoTrim(text) == text

\* ai.ts 337, 481, 534: content.trim() || null, <<>> standing for null
FinalContent(text) == trim(text)

\* ai.ts 337-430, 481-494, 534-546: the result for the text of a session
ResultFor(op, text) ==
    LET final == FinalContent(text)
    IN  IF final = <<>> THEN Failure(EmptyText(op))
        ELSE IF op = "generateCommitMessage" THEN Success(normalize(final))
        ELSE Success(cleanMessage(trim(final)))

\* variant: the fixed text is returned whatever was caught
ErrorTextOf_AlwaysFixed(value, op) == FailedText(op)

\* ai.ts 435, 499, 551: error instanceof Error ? error.message : '...'
ErrorTextOf(value, op) ==
    IF value.instanceOfError THEN value.message ELSE FailedText(op)

\* ai.ts 337-430, 481-494, 534-546: the call has returned its text
Return ==
    /\ apc = "returned"
    /\ gpc = "await"
    /\ gpc' = "done"
    /\ outcome' = ResultFor(caller, result)
    /\ UNCHANGED <<apc, verbose, model, fallbackModel, request, attempt,
                   requestsIssued, waitingTimer, timers, phase, contentChunks,
                   reasoningTokens, contentTokens, lastDelta, chunksSeen,
                   deltaLog, discarded, corrections, failedRequest, caught, twin,
                   result,
                   caller, rejection>>
    /\ UNCHANGED <<tagVars, normVars, commitVars>>

\* ai.ts 431-437, 495-501, 547-553: the call has thrown
Catch ==
    /\ apc = "thrown"
    /\ gpc = "await"
    /\ gpc' = "done"
    /\ \E value \in Rejections[caught[1]] :
          /\ rejection' = value
          /\ outcome' = Failure(ErrorTextOf(value, caller))
    /\ UNCHANGED <<apc, verbose, model, fallbackModel, request, attempt,
                   requestsIssued, waitingTimer, timers, phase, contentChunks,
                   reasoningTokens, contentTokens, lastDelta, chunksSeen,
                   deltaLog, discarded, corrections, failedRequest, caught, twin,
                   result,
                   caller>>
    /\ UNCHANGED <<tagVars, normVars, commitVars>>

AINext ==
    \/ SendRequest
    \/ OpenStream
    \/ Delta
    \/ Complete
    \/ Fail
    \/ Return
    \/ Catch

(***************************************************************************)
(* generateCommitMessage on the text of a completed session, ai.ts 337-430, *)
(* and the normalization applied again to its own result.                  *)
(***************************************************************************)
NormInit ==
    /\ TagIdle
    /\ AIIdle
    /\ CommitIdle
    /\ npc = "content"
    /\ content \in RawTexts
    /\ finalMessage = <<>>
    /\ commitResult = NoResult
    /\ renormalized = <<>>

\* ai.ts 337-362: trim, the empty check, the preamble and the header
InferHeader ==
    /\ npc = "content"
    /\ IF trim(content) = <<>>
       THEN /\ npc' = "done"
            /\ commitResult' = Failure(<<"No commit message generated">>)
            /\ UNCHANGED finalMessage
       ELSE /\ npc' = "headed"
            /\ finalMessage' = ensureHeader(stripPreamble(trim(content)))
            /\ UNCHANGED commitResult
    /\ UNCHANGED <<content, renormalized>>
    /\ UNCHANGED <<tagVars, aiVars, commitVars>>

\* ai.ts 365-430: cleanMessage, the line-level cleanup and the return
CleanUp ==
    /\ npc = "headed"
    /\ npc' = "done"
    /\ commitResult' = Success(finishMessage(finalMessage))
    /\ UNCHANGED <<content, finalMessage, renormalized>>
    /\ UNCHANGED <<tagVars, aiVars, commitVars>>

\* the returned message is normalized once more
NormalizeAgain ==
    /\ npc = "done"
    /\ commitResult.success
    /\ npc' = "again"
    /\ renormalized' = normalize(commitResult.message)
    /\ UNCHANGED <<content, finalMessage, commitResult>>
    /\ UNCHANGED <<tagVars, aiVars, commitVars>>

NormNext ==
    \/ InferHeader
    \/ CleanUp
    \/ NormalizeAgain

(***************************************************************************)
(* CommitCommand.handleCommit, commit.ts 29-129, one action per awaited     *)
(* call.  process.exit(1) ends the process: position "Exited".              *)
(***************************************************************************)
\* messages generateCommitMessage may return
CommitMessages == {<<"feat", ":", " ", "x">>, <<"chore", ":", " ", "x">>, <<>>}

\* CommitGenerationResult: a message, an error, or success without a message
AIResults ==
    {[success |-> TRUE, typeofMessage |-> "string", message |-> m] :
        m \in CommitMessages}
    \cup {[success |-> FALSE, typeofMessage |-> "undefined", message |-> <<>>],
          [success |-> TRUE, typeofMessage |-> "undefined", message |-> <<>>]}

\* lines the user may type at the prompt, one atom per character
CommitAnswers == {<<"y">>, <<"Y">>, <<"y", "e", "s">>, <<"Y", "E", "S">>,
                  <<" ", "y", "\n">>, <<"y", "e">>, <<"n">>, <<>>}

\* String.prototype.toLowerCase on the characters of an answer
LowerChar(c) == IF c = "Y" THEN "y" ELSE IF c = "E" THEN "e"
                ELSE IF c = "S" THEN "s" ELSE c

toLowerCase(s) == [k \in DOMAIN s |-> LowerChar(s[k])]

\* commit.ts 131-145
confirmCommit(answer) ==
    LET normalized == toLowerCase(trim(answer))
    IN  normalized = <<"y">> \/ normalized = <<"y", "e", "s">>

\* variant: every commit is pushed
shouldPush_Always(opts, config) == TRUE

\* commit.ts 101-103
shouldPush(opts, config) ==
    LET pushRequested == opts.push
        pushFromConfig == ~pushRequested /\ config.autoPush
    IN  pushRequested \/ pushFromConfig

CommitGoto(next, made) ==
    /\ cpc' = next
    /\ commitCalls' = commitCalls \o made
    /\ commitExit' = IF next = "Exited" THEN 1 ELSE commitExit
    /\ UNCHANGED <<commitOptions, existingConfig>>
    /\ UNCHANGED <<tagVars, aiVars, normVars>>

CommitInit ==
    /\ TagIdle
    /\ AIIdle
    /\ NormIdle
    /\ cpc = "Config"
    /\ commitOptions \in [push : BOOLEAN, messageOnly : BOOLEAN]
    /\ existingConfig \in [autoPush : BOOLEAN]
    /\ aiResult = [success |-> FALSE, typeofMessage |-> "undefined",
                   message |-> <<>>]
    /\ commitCalls = <<>>
    /\ commitExit = 0

\* commit.ts 31-54, 125-128: validateConfig throws when no API key is set
ValidateConfig ==
    /\ cpc = "Config"
    /\ \E valid \in BOOLEAN :
          CommitGoto(IF valid THEN "Diff" ELSE "Exited",
                     <<Call("validateConfig", 0, valid)>>)
    /\ UNCHANGED aiResult

\* commit.ts 56-63
StagedDiff ==
    /\ cpc = "Diff"
    /\ \E success \in BOOLEAN :
          CommitGoto(IF success THEN "Generate" ELSE "Exited",
                     <<Call("getStagedDiff", 0, success)>>)
    /\ UNCHANGED aiResult

\* commit.ts 65-83: the generation, its checks and the --message-only return
GenerateMessage ==
    /\ cpc = "Generate"
    /\ \E res \in AIResults :
          /\ aiResult' = res
          /\ CommitGoto(IF ~res.success \/ res.typeofMessage # "string"
                        THEN "Exited"
                        ELSE IF commitOptions.messageOnly THEN "Printed"
                        ELSE "Confirm",
                        <<Call("generateCommitMessage", 0, res.success)>>)

\* commit.ts 85-93
Confirm ==
    /\ cpc = "Confirm"
    /\ \E answer \in CommitAnswers :
          LET confirmed == confirmCommit(answer)
          IN  CommitGoto(IF confirmed THEN "Create" ELSE "Cancelled",
                         <<Call("confirmCommit", answer, confirmed)>>)
    /\ UNCHANGED aiResult

\* commit.ts 95-104, 121-124
CreateCommit ==
    /\ cpc = "Create"
    /\ \E commitSuccess \in BOOLEAN :
          CommitGoto(IF ~commitSuccess THEN "Exited"
                     ELSE IF shouldPush(commitOptions, existingConfig) THEN "Push"
                     ELSE "Done",
                     <<Call("createCommit", aiResult.message, commitSuccess)>>)
    /\ UNCHANGED aiResult

\* commit.ts 105-120
Push ==
    /\ cpc = "Push"
    /\ \E pushSuccess \in BOOLEAN :
          CommitGoto(IF pushSuccess THEN "Done" ELSE "Exited",
                     <<Call("push", 0, pushSuccess)>>)
    /\ UNCHANGED aiResult

CommitNext ==
    \/ ValidateConfig
    \/ StagedDiff
    \/ GenerateMessage
    \/ Confirm
    \/ CreateCommit
    \/ Push

(***************************************************************************)
(* Specifications: the tag command, the adapter, the normalization and the *)
(* commit command, each with the others at rest.                           *)
(***************************************************************************)
SpecTag == TagInit /\ [][TagNext]_vars

SpecCommit == CommitInit /\ [][CommitNext]_vars

SpecAI == AIInit /\ [][AINext]_vars

SpecNorm == NormInit /\ [][NormNext]_vars

(***************************************************************************)
(* Properties.                                                             *)
(***************************************************************************)
Called(op) == \E i \in DOMAIN calls : calls[i].op = op

CalledWith(op, res) == \E i \in DOMAIN calls : calls[i].op = op /\ calls[i].res = res

\* the calls that change the repository or a remote
Mutations == {"deleteLocalTag", "deleteRemoteTag", "createAnnotatedTag",
              "pushTagToRemote", "forcePushTag"}

\* the y/n prompts
ConfirmOps == {"confirmTagDelete", "confirmRemoteTagDelete", "confirmTagCreate",
               "confirmForcePush"}

IsPush(c) == c.op \in {"pushTagToRemote", "forcePushTag"}

\* the push calls of the run, in the order they were made
PushCalls == SelectSeq(calls, IsPush)

\* C1: one call of createStreamingCompletion makes at most 4 provider
\* requests (3 corrective retries), whatever errors the provider returns
C1_RetryBound == requestsIssued <= 4

\* C2: deleteLocalTag is invoked only after tagExists returned true and
\* confirmTagDelete returned true; when the user declines, no local delete,
\* tag creation or push is invoked
C2_DeleteLocalNeedsConfirm ==
    /\ \A i \in DOMAIN calls :
          calls[i].op = "deleteLocalTag" =>
             \E k \in 1..(i - 1), j \in 1..(i - 1) :
                /\ k < j
                /\ calls[k] = Call("tagExists", 0, TRUE)
                /\ calls[j] = Call("confirmTagDelete", 0, TRUE)
    /\ CalledWith("confirmTagDelete", FALSE) =>
          /\ tpc = "Cancelled"
          /\ \A i \in DOMAIN calls :
                calls[i].op \notin {"deleteLocalTag", "deleteRemoteTag",
                                    "createAnnotatedTag", "pushTagToRemote",
                                    "forcePushTag"}

C2_Witness == CalledWith("confirmTagDelete", TRUE) /\ Called("deleteLocalTag")

\* C3: deleteRemoteTag is invoked only after confirmTagDelete and then
\* confirmRemoteTagDelete returned true, and before the deleteLocalTag call
C3_DeleteRemoteOrder ==
    \A i \in DOMAIN calls :
       calls[i].op = "deleteRemoteTag" =>
          /\ \E j \in 1..(i - 1), k \in 1..(i - 1) :
                /\ j < k
                /\ calls[j] = Call("confirmTagDelete", 0, TRUE)
                /\ calls[k] = Call("confirmRemoteTagDelete", 0, TRUE)
          /\ \A m \in DOMAIN calls : calls[m].op = "deleteLocalTag" => m > i

C3_Witness ==
    \E i \in DOMAIN calls, m \in DOMAIN calls :
       /\ calls[i].op = "deleteRemoteTag"
       /\ calls[m].op = "deleteLocalTag"
       /\ i < m

\* C4: forcePushTag is invoked only after confirmForcePush returned true;
\* when the user declines, the run is cancelled and nothing is pushed
C4_ForcePushNeedsConfirm ==
    /\ \A i \in DOMAIN calls :
          calls[i].op = "forcePushTag" =>
             \E j \in 1..(i - 1) : calls[j] = Call("confirmForcePush", 0, TRUE)
    /\ CalledWith("confirmForcePush", FALSE) =>
          /\ tpc = "Cancelled"
          /\ ~Called("forcePushTag")
          /\ ~Called("pushTagToRemote")

C4_Witness == CalledWith("confirmForcePush", TRUE) /\ Called("forcePushTag")

\* the tag was found on the default remote and not deleted there in this run
RemoteTagStillThere ==
    CalledWith("remoteTagExists", TRUE) /\ ~CalledWith("deleteRemoteTag", TRUE)

C6_ForcePushWhenReplaced ==
    (/\ CalledWith("deleteLocalTag", TRUE)
     /\ CalledWith("createAnnotatedTag", TRUE)
     /\ CalledWith("selectRemotesForPush", TRUE)) =>
       /\ tpc = "ConfirmForcePush" \/ Called("confirmForcePush")
       /\ ~Called("pushTagToRemote")

\* number of failed pushes / of failure entries in the log
FailedPushes == Cardinality({i \in DOMAIN PushCalls : ~PushCalls[i].res})

FailureLogs == Cardinality({i \in DOMAIN logs : logs[i] = "failure"})

\* C7: every selected remote is pushed to exactly once, in order, whatever
\* the earlier pushes returned; each failure is logged; the run reaches Done
\* with exit status 0 and a final success entry
C7_PushEveryRemote ==
    /\ Len(PushCalls) <= Len(selectedRemotes)
    /\ \A i \in DOMAIN PushCalls : PushCalls[i].arg = selectedRemotes[i]
    /\ tpc \in {"PushEach", "ForcePushEach"} =>
          /\ pushIdx <= Len(selectedRemotes)
          /\ Len(PushCalls) = pushIdx - 1
    /\ Len(PushCalls) > 0 =>
          /\ tpc \in {"PushEach", "ForcePushEach", "Finish", "Done"}
          /\ exitCode = 0
          /\ tpc \in {"Finish", "Done"} => Len(PushCalls) = Len(selectedRemotes)
          /\ tpc = "Done" =>
                /\ FailureLogs = FailedPushes
                /\ logs[Len(logs)] = "success"

C7_Witness ==
    /\ tpc = "Done"
    /\ Len(selectedRemotes) = 2
    /\ Len(PushCalls) = 2
    /\ ~PushCalls[1].res
    /\ PushCalls[2].res

\* C8 as stated: declining any of the four prompts ends the run as Cancelled
\* and no git mutation follows the declined prompt
C8_AnyDeclineCancels ==
    \A i \in DOMAIN calls :
       (calls[i].op \in ConfirmOps /\ ~calls[i].res) =>
          /\ tpc = "Cancelled"
          /\ \A j \in DOMAIN calls : j > i => calls[j].op \notin Mutations

\* C8 amended: declining the delete, create or force-push prompt ends the run
\* as Cancelled with no call after it; declining the remote-delete prompt
\* skips the remote deletion and the run goes on with the local deletion
C8_DeclineCancelsExceptRemoteDelete ==
    \A i \in DOMAIN calls :
       /\ (/\ calls[i].op \in {"confirmTagDelete", "confirmTagCreate",
                               "confirmForcePush"}
           /\ ~calls[i].res) =>
             /\ tpc = "Cancelled"
             /\ i = Len(calls)
       /\ calls[i] = Call("confirmRemoteTagDelete", 0, FALSE) =>
             /\ ~Called("deleteRemoteTag")
             /\ IF i = Len(calls)
                THEN tpc = "DeleteLocal"
                ELSE calls[i + 1].op = "deleteLocalTag"

C8_Witness ==
    /\ CalledWith("confirmRemoteTagDelete", FALSE)
    /\ CalledWith("deleteLocalTag", TRUE)
    /\ CalledWith("confirmTagCreate", FALSE)
    /\ tpc = "Cancelled"

\* C9 as stated: a run that ends Cancelled has made no git mutation at all
\* and exits with status 0
C9_CancelledMeansUntouched ==
    tpc = "Cancelled" =>
       /\ exitCode = 0
       /\ \A i \in DOMAIN calls : calls[i].op \notin Mutations

\* C9 amended: a run that ends Cancelled exits with status 0, its last call
\* is the declined prompt, and it is untouched only when that prompt is the
\* delete prompt; cancelled at the create prompt, the mutations made are the
\* deletions of the replaced tag; cancelled at the force-push prompt, the
\* tag has been replaced and created and nothing has been pushed
C9_CancelledAfterDeclinedPrompt ==
    tpc = "Cancelled" =>
       LET last == calls[Len(calls)]
       IN  /\ exitCode = 0
           /\ logs = <<"cancelled">>
           /\ last.op \in {"confirmTagDelete", "confirmTagCreate", "confirmForcePush"}
           /\ ~last.res
           /\ last.op = "confirmTagDelete" =>
                 \A i \in DOMAIN calls : calls[i].op \notin Mutations
           /\ last.op = "confirmTagCreate" =>
                 /\ \A i \in DOMAIN calls :
                       calls[i].op \in Mutations =>
                          /\ calls[i].op \in {"deleteLocalTag", "deleteRemoteTag"}
                          /\ calls[i].res
                 /\ localTagExists <=> CalledWith("deleteLocalTag", TRUE)
           /\ last.op = "confirmForcePush" =>
                 /\ CalledWith("deleteLocalTag", TRUE)
                 /\ CalledWith("createAnnotatedTag", TRUE)
                 /\ PushCalls = <<>>

C9_Witness ==
    /\ tpc = "Cancelled"
    /\ CalledWith("deleteLocalTag", TRUE)
    /\ calls[Len(calls)] = Call("confirmTagCreate", 0, FALSE)

\* order of the phases
PhaseRank(ph) == IF ph = "waiting" THEN 0 ELSE IF ph = "thinking" THEN 1 ELSE 2

\* C10: within one streaming session the phase never moves backward in the
\* order waiting < thinking < content
C10_PhaseMonotone ==
    [][(apc = "stream" /\ apc' \in {"stream", "returned"}) =>
          PhaseRank(phase') >= PhaseRank(phase)]_vars

C10_Witness ==
    /\ apc = "stream"
    /\ phase = "content"
    /\ chunksSeen >= 2
    /\ lastDelta = [reasoning |-> TRUE, content |-> <<>>]

RECURSIVE ContentOf(_)
\* the content fragments of a sequence of deltas, one after the other
ContentOf(log) ==
    IF log = <<>> THEN <<>> ELSE Head(log).content \o ContentOf(Tail(log))

\* C11: the string a completed session returns is the concatenation, in
\* arrival order, of the content fragments of the deltas it delivered;
\* reasoning content and deltas without content add nothing
C11_ResultIsContentInOrder ==
    apc = "returned" => result = ContentOf(deltaLog)

C11_Witness ==
    /\ apc = "returned"
    /\ deltaLog = <<[reasoning |-> TRUE, content |-> <<"a">>],
                    [reasoning |-> FALSE, content |-> <<" ">>]>>
    /\ result = <<"a", " ">>

\* C12: a verbose and a silent call that get the same request and the same
\* provider responses send the same requests and end with the same text or
\* the same error
C12_VerboseDoesNotChangeOutcome ==
    /\ twin.apc = apc
    /\ twin.request = request
    /\ twin.attempt = attempt
    /\ twin.requestsIssued = requestsIssued
    /\ twin.caught = caught
    /\ twin.result = result

C12_Witness ==
    /\ apc = "returned"
    /\ verbose
    /\ attempt = 1
    /\ deltaLog = <<[reasoning |-> TRUE, content |-> <<>>],
                    [reasoning |-> TRUE, content |-> <<"a">>]>>
    /\ twin.result = <<"a">>
    /\ twin.requestsIssued = 2

\* C13: the normalization of generateCommitMessage is idempotent: applied to
\* its own result it returns that result
C13_NormalizeIdempotent ==
    npc = "again" => renormalized = commitResult.message

\* the lines of a text
LinesOf(text) == split(text)

\* C14: a message that generateCommitMessage returns with success is not
\* empty, its first line is a conventional-commit header and no other line
\* is one
C14_OneHeaderFirst ==
    (npc \in {"done", "again"} /\ commitResult.success) =>
        /\ commitResult.message # <<>>
        /\ headerPattern(LinesOf(commitResult.message)[1])
        /\ \A i \in 2..Len(LinesOf(commitResult.message)) :
              ~headerPattern(LinesOf(commitResult.message)[i])

\* C15: when the raw text starts with a type-only line that a valid header
\* line follows, the returned message is that header line; the text
\* "chore:\nfeat(api): add retry\nfix: unrelated" gives
\* "feat(api): add retry"
C15_StrayTypeLineDropped ==
    LET raw == LinesOf(trim(content))
    IN  /\ (/\ npc = "done"
            /\ Len(raw) >= 2
            /\ typeOnlyPattern(raw[1])
            /\ headerPattern(raw[2]))
           => LinesOf(commitResult.message)[1] = trimEnd(raw[2])
        /\ (npc = "done" /\ content = StrayTypeText)
           => commitResult.message =
                 <<"feat", "(", "api", ")", ":", " ", "add", " ", "retry">>

\* C16: a text that, after its preamble is stripped, does not start with a
\* header gets the type chore if it contains "version" or "update", else
\* feat if it contains "feature" or "add", else fix if it contains "fix" or
\* "bug", else chore; "The commit message is: update version to 2.0" gives
\* "chore: update version to 2.0"
C16_InferenceOrder ==
    LET text == stripPreamble(trim(content))
        has(word) == includes(text, word)
        prefixed(type) == finalMessage = <<type, ":", " ">> \o text
    IN  /\ (npc = "headed" /\ ~startsWithHeader(text)) =>
              IF has("version") \/ has("update") THEN prefixed("chore")
              ELSE IF has("feature") \/ has("add") THEN prefixed("feat")
              ELSE IF has("fix") \/ has("bug") THEN prefixed("fix")
              ELSE prefixed("chore")
        /\ (npc = "done" /\ content = VersionText) =>
              commitResult =
                 Success(<<"chore", ":", " ", "update", " ", "version", " ",
                           "to", " ", "2.0">>)

C16_Witness ==
    /\ npc = "done"
    /\ content = <<"update", " ", "fix">>
    /\ commitResult = Success(<<"chore", ":", " ", "update", " ", "fix">>)

\* C17: when a request that carries max_completion_tokens is rejected because
\* that parameter is unsupported, the retry carries max_tokens with the same
\* value and no max_completion_tokens, and the other way round for a rejected
\* max_tokens; a call that returns after one such retry has made exactly two
\* provider requests
C17_TokenParamSwap ==
    [][/\ (/\ apc \in {"pending", "stream"}
           /\ caught' # <<>>
           /\ ~caught'[1].unsupportedTemperature
           /\ caught'[1].unsupportedMaxCompletionTokens
           /\ request.max_completion_tokens # 0)
          => /\ apc' = "create"
             /\ request'.max_tokens = request.max_completion_tokens
             /\ request'.max_completion_tokens = 0
       /\ (/\ apc \in {"pending", "stream"}
           /\ caught' # <<>>
           /\ ~caught'[1].unsupportedTemperature
           /\ ~caught'[1].unsupportedMaxCompletionTokens
           /\ caught'[1].unsupportedMaxTokens
           /\ request.max_tokens # 0)
          => /\ apc' = "create"
             /\ request'.max_completion_tokens = request.max_tokens
             /\ request'.max_tokens = 0
       /\ (apc' = "returned" /\ attempt' = 1 /\ request'.max_tokens # 0)
          => requestsIssued' = 2
      ]_vars

C17_Witness ==
    /\ apc = "returned"
    /\ attempt = 1
    /\ request.max_tokens = 4000
    /\ request.max_completion_tokens = 0
    /\ requestsIssued = 2
    /\ result = <<"a">>

\* an error that no branch of the catch block corrects
Terminal(class, req, fallback) ==
    /\ ~class.unsupportedTemperature
    /\ ~class.unsupportedMaxCompletionTokens
    /\ ~class.unsupportedMaxTokens
    /\ ~(class.rateLimit /\ fallback # "none" /\ req.model # fallback)

\* the call ends with an error that no branch corrects: it is rethrown
\* without a further request
TerminalStep ==
    /\ (/\ apc \in {"pending", "stream"}
        /\ caught' # <<>>
        /\ Terminal(caught'[1], request, fallbackModel))
       => /\ apc' = "thrown"
          /\ requestsIssued' = requestsIssued
    /\ apc = "thrown" => (apc' = "thrown" /\ requestsIssued' = requestsIssued)

\* C18 as stated: an error that is not classified as unsupported
\* temperature, unsupported token parameter or rate limit with a usable
\* fallback ends the call without a retry, and the generate operation
\* returns success false with the message of the error
C18_TerminalErrorMessage ==
    [][/\ TerminalStep
       /\ (/\ gpc' = "done"
           /\ apc' = "thrown"
           /\ Terminal(caught'[1], request', fallbackModel'))
          => outcome' = Failure(rejection'.message)
      ]_vars

\* C18, amended: the returned error is the message of the caught value when
\* that value is an instance of Error, and the fixed text "Failed to
\* generate ..." of the operation when it is not
C18_TerminalErrorText ==
    [][/\ TerminalStep
       /\ (/\ gpc' = "done"
           /\ apc' = "thrown"
           /\ Terminal(caught'[1], request', fallbackModel'))
          => /\ rejection'.instanceOfError
                => outcome' = Failure(rejection'.message)
             /\ ~rejection'.instanceOfError
                => outcome' =
                      Failure(IF caller' = "generateCommitMessage"
                              THEN <<"Failed to generate commit message">>
                              ELSE IF caller' = "generateTagNotes"
                              THEN <<"Failed to generate tag notes">>
                              ELSE <<"Failed to generate pull request message">>)
      ]_vars

C18_Witness ==
    /\ gpc = "done"
    /\ apc = "thrown"
    /\ requestsIssued = 1
    /\ Terminal(caught[1], request, fallbackModel)
    /\ caught[1].rateLimit
    /\ rejection = [instanceOfError |-> TRUE, message |-> <<"temperature">>]
    /\ outcome = Failure(<<"temperature">>)

\* C19: a session that completes without final content (no content, or
\* content that is empty after trimming) makes the generate operation return
\* success false with its named error; reasoning is never the result
C19_EmptyGenerationNamed ==
    (gpc = "done" /\ apc = "returned" /\ trim(ContentOf(deltaLog)) = <<>>) =>
        /\ ~outcome.success
        /\ outcome.message = <<>>
        /\ caller = "generateCommitMessage"
              => outcome.error = <<"No commit message generated">>
        /\ caller = "generateTagNotes"
              => outcome.error = <<"No tag notes generated">>
        /\ caller = "generatePullRequestMessage"
              => outcome.error = <<"No pull request message generated">>

C19_Witness ==
    /\ gpc = "done"
    /\ apc = "returned"
    /\ deltaLog = <<[reasoning |-> TRUE, content |-> <<>>],
                    [reasoning |-> TRUE, content |-> <<" ">>]>>
    /\ outcome = Failure(<<"No tag notes generated">>)

\* the calls that generate the notes: the AI configuration and service
\* (tag.ts 776-792), the commit history (tag.ts 762-774), the generation
\* (tag.ts 794-802)
GenerationCalls == {"resolveAIConfig", "getCommitSummariesSince", "generateTagNotes"}

\* every createAnnotatedTag follows a confirmed confirmTagCreate and carries
\* the given text
CreatesConfirmedWith(text) ==
    \A i \in DOMAIN calls :
       calls[i].op = "createAnnotatedTag" =>
          /\ calls[i].arg = text
          /\ \E j \in 1..(i - 1) : calls[j] = Call("confirmTagCreate", 0, TRUE)

\* C20, as stated: when --message is given and is not empty, the generation
\* service is neither configured nor called, no commit history is read, the
\* tag is created only after the create-tag confirmation, and
\* createAnnotatedTag receives exactly the text of --message.
C20_ExplicitMessageVerbatim ==
    (options.message.given /\ options.message.text # <<>>) =>
       /\ \A op \in GenerationCalls : ~Called(op)
       /\ CreatesConfirmedWith(options.message.text)

\* C20, what the code guarantees: when --message is given and is not blank, the generation
\* service is neither configured nor called, no commit history is read, the
\* tag is created only after the create-tag confirmation, and
\* createAnnotatedTag receives the text of --message without the white space
\* around it.
C20_NonBlankMessageTrimmed ==
    (options.message.given /\ trim(options.message.text) # <<>>) =>
       /\ \A op \in GenerationCalls : ~Called(op)
       /\ CreatesConfirmedWith(trim(options.message.text))

\* a tag created from a --message that has white space around its text
C20_Witness ==
    /\ options.message = Message(<<" ", "m", "\n">>)
    /\ calls # <<>>
    /\ calls[Len(calls)] = Call("createAnnotatedTag", <<"m">>, TRUE)
    /\ Called("confirmTagCreate")
    /\ \A op \in GenerationCalls : ~Called(op)

\* the steps of the generation path that can fail: reading the commit
\* history, resolving the configuration, generating the notes
GenerationFailed ==
    \E op \in GenerationCalls : CalledWith(op, FALSE)

\* C21: createAnnotatedTag is invoked only with a resolved (non-empty) tag
\* message and right after confirmTagCreate returned true; when the commit
\* history cannot be read, the configuration is invalid or the generation of
\* the notes fails, the run is in Failed with exit status 1 and no tag was
\* created or pushed.
C21_CreateOnlyAfterMessageAndConfirm ==
    /\ \A i \in DOMAIN calls :
          calls[i].op = "createAnnotatedTag" =>
             /\ calls[i].arg # <<>>
             /\ calls[i].arg = tagMessage
             /\ i > 1
             /\ calls[i - 1] = Call("confirmTagCreate", 0, TRUE)
    /\ GenerationFailed =>
          /\ tpc = "Failed"
          /\ exitCode = 1
          /\ ~Called("createAnnotatedTag")
          /\ \A i \in DOMAIN calls : ~IsPush(calls[i])

\* a run that replaced a local tag and then failed to generate the notes
C21_Witness ==
    /\ CalledWith("deleteLocalTag", TRUE)
    /\ CalledWith("generateTagNotes", FALSE)
    /\ tpc = "Failed"

\* the calls of handleCommit with the given name, as positions of the trace
CommitCallsOf(op) == {i \in DOMAIN commitCalls : commitCalls[i].op = op}

\* C22: createCommit is invoked only right after confirmCommit returned true;
\* push is invoked only right after createCommit succeeded, only when --push
\* was given or autoPush is set in the configuration, and at most once, and
\* a finished run with such a request has pushed exactly once; with
\* --message-only no confirmation is asked and neither createCommit nor push
\* is invoked.
C22_CommitNeedsConfirmPushNeedsCommit ==
    /\ \A i \in CommitCallsOf("createCommit") :
          /\ i > 1
          /\ commitCalls[i - 1].op = "confirmCommit"
          /\ commitCalls[i - 1].res = TRUE
          /\ commitCalls[i].arg = aiResult.message
    /\ \A i \in CommitCallsOf("push") :
          /\ i > 1
          /\ commitCalls[i - 1].op = "createCommit"
          /\ commitCalls[i - 1].res = TRUE
          /\ commitOptions.push \/ existingConfig.autoPush
    /\ Cardinality(CommitCallsOf("push")) <= 1
    /\ Cardinality(CommitCallsOf("createCommit")) <= 1
    /\ (cpc = "Done" /\ (commitOptions.push \/ existingConfig.autoPush)) =>
          Cardinality(CommitCallsOf("push")) = 1
    /\ commitOptions.messageOnly =>
          /\ CommitCallsOf("confirmCommit") = {}
          /\ CommitCallsOf("createCommit") = {}
          /\ CommitCallsOf("push") = {}

\* a commit confirmed with " y", created, and pushed because of autoPush alone
C22_Witness ==
    /\ cpc = "Done"
    /\ ~commitOptions.push
    /\ existingConfig.autoPush
    /\ \E i \in CommitCallsOf("confirmCommit") :
          commitCalls[i].arg = <<" ", "y", "\n">>
    /\ CommitCallsOf("push") # {}

\* one iteration of the loop over the stream: the delta it handled is
\* lastDelta'
DeltaStep == apc = "stream" /\ apc' = "stream" /\ chunksSeen' = chunksSeen + 1

\* C23, as stated: in every session, verbose or silent, a delta with
\* reasoning content (and no final content) that arrives while the phase is
\* waiting moves the phase to thinking, and a delta with final content moves
\* the phase to content, from waiting and from thinking.
C23_FirstDeltasMovePhase ==
    [][DeltaStep =>
         /\ (lastDelta'.reasoning /\ lastDelta'.content = <<>> /\ phase = "waiting")
               => phase' = "thinking"
         /\ lastDelta'.content # <<>> => phase' = "content"]_vars

\* C23, amended: a delta with reasoning content (and no final content) that
\* arrives while the phase is waiting moves the phase to thinking in a verbose
\* session and leaves it waiting in a silent one (the move is tied to the
\* waiting timer, which only a verbose session sets); in every session a delta
\* with final content moves the phase to content, from waiting and from
\* thinking.
C23_PhaseMovesWithTimer ==
    [][DeltaStep =>
         /\ (lastDelta'.reasoning /\ lastDelta'.content = <<>> /\ phase = "waiting")
               => phase' = (IF verbose THEN "thinking" ELSE "waiting")
         /\ lastDelta'.content # <<>> => phase' = "content"]_vars

\* a verbose session that went from waiting to thinking on a reasoning delta
\* and from thinking to content on the next delta
C23_Witness ==
    /\ apc = "stream"
    /\ verbose
    /\ Len(deltaLog) = 2
    /\ deltaLog[1] = [reasoning |-> TRUE, content |-> <<>>]
    /\ deltaLog[2].content # <<>>
    /\ phase = "content"

\* C24, as stated: over the retry chain of one initial request at most one
\* retry is caused by an unsupported-temperature error.
C24_TemperatureCorrectionOnce == corrections.temperature <= 1

\* C24, amended: over the retry chain of one initial request at most three
\* retries are caused by an unsupported-temperature error (the rule applies
\* while the attempt counter is below 3), and after the first of them the
\* request carries no temperature.
C24_TemperatureCorrectionBounded ==
    /\ corrections.temperature <= TemperatureRetryLimit
    /\ corrections.temperature >= 1 => ~request.temperature

\* the provider kept returning the temperature error: three retries were
\* made for it and the fourth error was rethrown
C24_Witness ==
    /\ corrections.temperature = 3
    /\ apc = "thrown"
    /\ caught # <<>>
    /\ caught[1].unsupportedTemperature

\* a step of the catch block: the error it handles is caught'[1]
FailStep == apc \in {"pending", "stream"} /\ apc' \in {"create", "thrown"}

\* an error that is a rate-limit error and matches no earlier rule
RateLimitOnly(class) ==
    /\ class.rateLimit
    /\ ~class.unsupportedTemperature
    /\ ~class.unsupportedMaxCompletionTokens
    /\ ~class.unsupportedMaxTokens

\* C25: on a rate-limit error (one that matches no earlier rule) the call is
\* retried if and only if a fallback model is configured and differs from the
\* model of the failed request, the retried request differs from the failed
\* one in its model alone, and otherwise the error is rethrown with the
\* request left as it is; the model is substituted at most once in a chain,
\* so a rate-limit error on the fallback model is terminal.
C25_RateLimitFallback ==
    /\ [](corrections.model <= 1)
    /\ [][(FailStep /\ RateLimitOnly(caught'[1])) =>
            IF fallbackModel # "none" /\ request.model # fallbackModel
            THEN /\ apc' = "create"
                 /\ request' = [request EXCEPT !.model = fallbackModel]
                 /\ request'.model # request.model
                 /\ attempt' = attempt + 1
            ELSE /\ apc' = "thrown"
                 /\ request' = request]_vars

\* a chain that moved to the fallback model and was rate-limited again
C25_Witness ==
    /\ apc = "thrown"
    /\ corrections.model = 1
    /\ request.model = "fallback"
    /\ caught # <<>>
    /\ RateLimitOnly(caught[1])

\* the rules of the catch block in the order of the claim
RuleOrder == <<"remove_temperature", "use_max_tokens",
               "use_max_completion_tokens", "use_fallback_model">>

\* the error is of the class the rule is about
RuleMatches(k, class) ==
    IF k = 1 THEN class.unsupportedTemperature
    ELSE IF k = 2 THEN class.unsupportedMaxCompletionTokens
    ELSE IF k = 3 THEN class.unsupportedMaxTokens
    ELSE class.rateLimit

\* the rule matches and its further condition holds: the attempt counter
\* for the temperature rule, the fallback model for the rate-limit rule
RuleApplies(k, class, att, req, fallback) ==
    /\ RuleMatches(k, class)
    /\ k = 1 => att < 3
    /\ k = 4 => (fallback # "none" /\ req.model # fallback)

\* the request a rule derives from the failed one
Derived(k, req, fallback) ==
    IF k = 1 THEN [req EXCEPT !.temperature = FALSE]
    ELSE IF k = 2 THEN swapTokenParam(req, "max_tokens")
    ELSE IF k = 3 THEN swapTokenParam(req, "max_completion_tokens")
    ELSE [req EXCEPT !.model = fallback]

\* the step applies rule k alone: one correction is counted, the attempt
\* counter goes up by one, the request is the one rule k derives
AppliesAlone(k) ==
    /\ apc' = "create"
    /\ corrections' = Counted(corrections, RuleOrder[k])
    /\ attempt' = attempt + 1
    /\ request' = Derived(k, request, fallbackModel)

CorrectedFields(before, after) ==
    IF after.temperature = before.temperature + 1 THEN {"temperature"}
    ELSE IF after.token = before.token + 1
    THEN {"max_tokens", "max_completion_tokens"}
    ELSE IF after.model = before.model + 1 THEN {"model"}
    ELSE {}

\* two requests with the same fields that agree outside the given fields
SameExcept(r1, r2, fields) ==
    /\ DOMAIN r1 = DOMAIN r2
    /\ \A f \in DOMAIN r1 \ fields : r1[f] = r2[f]

\* C27: the catch block leaves the request object of the failed attempt and
\* the configured models of the service as they were; the request of a
\* retry differs from the failed one in the corrected fields alone
\* (temperature, the two token-limit fields, or the model), its message list
\* and every other field being equal; an error that is rethrown leaves the
\* request as it is.
C27_DerivedRequestFrame ==
    [][FailStep =>
         /\ failedRequest' = <<request>>
         /\ model' = model
         /\ fallbackModel' = fallbackModel
         /\ apc' = "create" =>
               /\ CorrectedFields(corrections, corrections') # {}
               /\ SameExcept(request, request',
                             CorrectedFields(corrections, corrections'))
               /\ request'.messages = request.messages
         /\ apc' = "thrown" => request' = request]_vars

\* a retry whose request lost its temperature while the failed request
\* still carries it
C27_Witness ==
    /\ apc = "create"
    /\ failedRequest # <<>>
    /\ failedRequest[1].temperature
    /\ ~request.temperature
    /\ request.messages = Messages
    /\ corrections.temperature = 1

\* C28: when deleteRemoteTag fails the run is in Failed with exit status 1
\* and has invoked neither deleteLocalTag nor createAnnotatedTag; when
\* deleteLocalTag fails the run is in Failed with exit status 1 and has
\* invoked neither createAnnotatedTag nor a push.
C28_FailedDeletionIsFatal ==
    /\ CalledWith("deleteRemoteTag", FALSE) =>
          /\ tpc = "Failed"
          /\ exitCode = 1
          /\ ~Called("deleteLocalTag")
          /\ ~Called("createAnnotatedTag")
          /\ calls[Len(calls)].op = "deleteRemoteTag"
    /\ CalledWith("deleteLocalTag", FALSE) =>
          /\ tpc = "Failed"
          /\ exitCode = 1
          /\ ~Called("createAnnotatedTag")
          /\ PushCalls = <<>>
          /\ calls[Len(calls)].op = "deleteLocalTag"

\* the remote tag was deleted and the local deletion then failed
C28_Witness ==
    /\ CalledWith("deleteRemoteTag", TRUE)
    /\ CalledWith("deleteLocalTag", FALSE)
    /\ tpc = "Failed"
    /\ exitCode = 1

\* a version-control command of the tag flow has failed
CommandFailed ==
    \E i \in DOMAIN calls : calls[i].op \in Mutations /\ calls[i].res = FALSE

\* the run is over
TagRunOver == tpc \in {"Done", "Failed", "Cancelled"}

\* C29: when a version-control command of the tag flow (remote delete, local
\* delete, create, push, force push) has failed, a failure is logged, the
\* status success is never logged, and the run ends with a non-zero exit
\* status.
C29_CommandFailureExitsNonZero ==
    CommandFailed =>
       /\ \E k \in DOMAIN logs : logs[k] = "failure"
       /\ \A k \in DOMAIN logs : logs[k] # "success"
       /\ TagRunOver => exitCode # 0

\* the positions of the trace between j and i that hold a call of op
QueriedBetween(op, j, i) ==
    \E k \in (j + 1)..(i - 1) : calls[k].op = op

\* C30, as stated: after deleteLocalTag has returned, local existence is
\* queried again before the tag is created, and after deleteRemoteTag has
\* returned, remote existence is queried again before the force-push decision
\* (which follows the selection of the remotes) is taken.
C30_ExistenceReadAgain ==
    \A i \in DOMAIN calls : \A j \in 1..(i - 1) :
       /\ (calls[i].op = "createAnnotatedTag" /\ calls[j].op = "deleteLocalTag")
             => QueriedBetween("tagExists", j, i)
       /\ (calls[i].op = "selectRemotesForPush" /\ calls[j].op = "deleteRemoteTag")
             => QueriedBetween("remoteTagExists", j, i)

\* C30, amended: local and remote existence are each queried at most once,
\* before any deletion; no existence query follows a deletion; after a
\* successful deleteRemoteTag the remote flag is false without a further
\* query, so no force push is asked for or made; otherwise the flag is what
\* the one query returned.
C30_ExistenceReadOnce ==
    /\ Cardinality({i \in DOMAIN calls : calls[i].op = "tagExists"}) <= 1
    /\ Cardinality({i \in DOMAIN calls : calls[i].op = "remoteTagExists"}) <= 1
    /\ \A i \in DOMAIN calls : \A j \in 1..(i - 1) :
          calls[j].op \in {"deleteLocalTag", "deleteRemoteTag"} =>
             calls[i].op \notin {"tagExists", "remoteTagExists"}
    /\ CalledWith("deleteRemoteTag", TRUE) =>
          /\ remoteTagExists = FALSE
          /\ ~Called("confirmForcePush")
          /\ ~Called("forcePushTag")
    /\ (Called("remoteTagExists") /\ ~CalledWith("deleteRemoteTag", TRUE)) =>
          remoteTagExists = CalledWith("remoteTagExists", TRUE)

\* both deletions succeeded, the tag was created and pushed without force
C30_Witness ==
    /\ CalledWith("deleteRemoteTag", TRUE)
    /\ CalledWith("deleteLocalTag", TRUE)
    /\ CalledWith("createAnnotatedTag", TRUE)
    /\ Called("pushTagToRemote")

(***************************************************************************)
(* C31: the remotes that receive a push.                                   *)
(***************************************************************************)
SelectCalls == {i \in DOMAIN calls : calls[i].op = "selectRemotesForPush"}

\* selectRemotesForPush returns
SelectStep == tpc = "SelectRemotes" /\ tpc' # "SelectRemotes"

RECURSIVE FirstOccurrences(_, _)
\* the entries of a list in order, each kept where it occurs first
FirstOccurrences(list, acc) ==
    IF list = <<>> THEN acc
    ELSE FirstOccurrences(Tail(list),
                          IF \E k \in DOMAIN acc : acc[k] = Head(list)
                          THEN acc ELSE Append(acc, Head(list)))

\* the selection the claim gives an answer; every entry of the list has to
\* be an index
SelectionClaimed(typed, rems) ==
    IF typed.kind = "all" THEN rems
    ELSE IF typed.kind = "list" /\ typed.plain
         THEN LET firsts == FirstOccurrences(typed.indexes, <<>>)
              IN  [k \in DOMAIN firsts |-> rems[firsts[k]]]
         ELSE <<>>

\* the pushes go to distinct listed remotes, in the order of the selection
PushedSubsetInOrder ==
    /\ \A i, j \in DOMAIN PushCalls : i # j => PushCalls[i].arg # PushCalls[j].arg
    /\ \A i \in DOMAIN PushCalls :
          /\ \E k \in DOMAIN remotes : remotes[k] = PushCalls[i].arg
          /\ i <= Len(selectedRemotes) /\ PushCalls[i].arg = selectedRemotes[i]
    /\ PushCalls # <<>> => SelectCalls # {}

\* no remotes: no prompt, no push; nothing selected: no push; and the run
\* that gets that far ends in Done with a success record and status 0
NothingSelectedIsSuccess ==
    /\ (Called("getRemotes") /\ remotes = <<>>) => SelectCalls = {}
    /\ selectedRemotes = <<>> => PushCalls = <<>>
    /\ (Called("getRemotes") /\ selectedRemotes = <<>> /\ TagRunOver) =>
          /\ tpc = "Done"
          /\ logs = <<"success">>
          /\ exitCode = 0

\* C31: the remotes that receive a push are a duplicate-free subset of the
\* listed remotes in the order the user gave ('all': every remote in
\* enumeration order); no remotes, 'n', the empty answer or an answer with an
\* entry that is not an index in 1..N select nothing, and the run still ends
\* in Done with status success
C31_SelectionFromIndexesOnly ==
    /\ [](PushedSubsetInOrder /\ NothingSelectedIsSuccess)
    /\ [][SelectStep =>
            selectedRemotes' = SelectionClaimed(prompt[1].typed, remotes)]_vars

\* C31, what the code guarantees: the same, for the answers 'n', 'all' and
\* the lists whose entries are all indexes
C31_SelectionFromPlainAnswers ==
    /\ [](PushedSubsetInOrder /\ NothingSelectedIsSuccess)
    /\ [][(SelectStep /\ (prompt[1].typed.kind = "list" => prompt[1].typed.plain)) =>
            selectedRemotes' = SelectionClaimed(prompt[1].typed, remotes)]_vars

C31_Witness ==
    /\ tpc = "Done"
    /\ selectedRemotes = <<2, 1>>
    /\ Len(PushCalls) = 2
    /\ PushCalls[1].arg = 2
    /\ PushCalls[2].arg = 1

(***************************************************************************)
(* C32: the pushes are sequential.                                         *)
(***************************************************************************)
\* C32: at most one push is in flight; a push starts only after all the
\* pushes to the remotes selected before it have completed; the completed
\* pushes and their failure reports follow the selection order
C32_PushesSequential ==
    /\ Len(inFlight) <= 1
    /\ inFlight # <<>> =>
          /\ tpc \in {"PushEach", "ForcePushEach"}
          /\ Len(PushCalls) < Len(selectedRemotes)
          /\ inFlight[1] = selectedRemotes[Len(PushCalls) + 1]
    /\ \A i \in DOMAIN PushCalls :
          i <= Len(selectedRemotes) /\ PushCalls[i].arg = selectedRemotes[i]
    /\ PushCalls # <<>> => FailureLogs = FailedPushes

C32_Witness ==
    /\ Len(selectedRemotes) = 2
    /\ Len(PushCalls) = 1
    /\ ~PushCalls[1].res
    /\ inFlight = <<selectedRemotes[2]>>

(***************************************************************************)
(* C33: the automatic tag name.                                            *)
(***************************************************************************)
\* the latest tags that hold a version, by their parts
Versions ==
    {[prefix |-> <<>>, v |-> <<"v">>, major |-> <<"1">>, minor |-> <<"0">>,
      patch |-> 2, suffix |-> <<>>],
     [prefix |-> <<"pkg", "-">>, v |-> <<>>, major |-> <<"2">>,
      minor |-> <<"1", "0">>, patch |-> 9, suffix |-> <<"-", "rc", ".", "1">>]}

\* the text of a tag made of these parts
TagText(c) ==
    c.prefix \o c.v \o c.major \o <<".">> \o c.minor \o <<".">>
    \o ToDigits(c.patch) \o c.suffix

\* C33: with no name given the new name is the latest tag with its patch
\* number increased by one and every other part unchanged; with no latest
\* tag, or one without a version, the run ends in Failed with exit status 1
\* after the getLatestTag call and nothing else
C33_AutoIncrementPatch ==
    (tagName = NoName /\ tpc # "Start") =>
        LET latest == calls[1].arg
        IN  /\ calls[1].op = "getLatestTag"
            /\ IF \E c \in Versions : TagText(c) = latest
               THEN /\ \A c \in Versions :
                          TagText(c) = latest =>
                             trimmedName = TagText([c EXCEPT !.patch = @ + 1])
                    /\ Len(calls) = 1 => tpc = "CheckLocal"
               ELSE /\ tpc = "Failed"
                    /\ exitCode = 1
                    /\ logs = <<"failure">>
                    /\ Len(calls) = 1

C33_Witness ==
    /\ tagName = NoName
    /\ CalledWith("createAnnotatedTag", TRUE)
    /\ calls[1].arg = PkgTag
    /\ trimmedName = <<"pkg", "-", "2", ".", "1", "0", ".", "1", "0",
                       "-", "rc", ".", "1">>

(***************************************************************************)
(* C34: the messages handed to generateTagNotes.                           *)
(***************************************************************************)
CallsOf(op) == {i \in DOMAIN calls : calls[i].op = op}

\* the getTagMessage calls on the tag that is created / on another tag
PreviousReads ==
    {i \in CallsOf("getTagMessage") : calls[i].arg = trimmedName}

StyleReads ==
    {i \in CallsOf("getTagMessage") : calls[i].arg # trimmedName}

\* what a read gave: the message if there is one, else null
ValueRead(reads, text) ==
    IF \E i \in reads : calls[i].res THEN text ELSE "null"

\* C34: the message of a tag that exists is read once, right after
\* tagExists and before any deletion, and is what generateTagNotes gets as
\* previous message (null for a tag that did not exist); the base tag's
\* message is read, once, exactly when a base tag is known and differs
\* from the tag being created, and is what generateTagNotes gets as style
\* reference
C34_PreviousMessageCaptured ==
    /\ \A i \in CallsOf("tagExists") :
          /\ calls[i].res => (i + 1) \in PreviousReads
          /\ PreviousReads = IF calls[i].res THEN {i + 1} ELSE {}
    /\ \A i \in CallsOf("deleteLocalTag") \cup CallsOf("deleteRemoteTag") :
          \E j \in PreviousReads : j < i
    /\ CallsOf("getCommitSummariesSince") # {} =>
          /\ StyleReads # {} <=> (baseTag # NoName /\ baseTag # trimmedName)
          /\ \A i \in StyleReads :
                /\ calls[i].arg = baseTag
                /\ StyleReads = {i}
                /\ \A j \in CallsOf("getCommitSummariesSince") : i < j
    /\ \A i \in CallsOf("generateTagNotes") :
          /\ calls[i].arg.previousMessage = ValueRead(PreviousReads, "prev")
          /\ calls[i].arg.styleReference = ValueRead(StyleReads, "style")
          /\ \A j \in PreviousReads \cup StyleReads : j < i

C34_Witness ==
    /\ CalledWith("deleteLocalTag", TRUE)
    /\ \E i \in CallsOf("generateTagNotes") :
          /\ calls[i].arg.previousMessage = "prev"
          /\ calls[i].arg.styleReference = "style"

(***************************************************************************)
(* C35: the references in the generation request.                          *)
(***************************************************************************)
Contains(text, part) == \E k \in DOMAIN text : text[k] = part

\* C35: when there is a previous message and a style reference, the user
\* message of the request holds both texts
C35_BothReferencesAttached ==
    \A i \in CallsOf("generateTagNotes") :
        (calls[i].arg.previousMessage # "null"
         /\ calls[i].arg.styleReference # "null") =>
            /\ Contains(calls[i].arg.userContent, calls[i].arg.previousMessage)
            /\ Contains(calls[i].arg.userContent, calls[i].arg.styleReference)

\* C35, amended: the user message holds the previous message whenever there
\* is one, and the style reference only when there is one and no previous
\* message
C35_PreviousReplacesStyle ==
    \A i \in CallsOf("generateTagNotes") :
        LET previous == calls[i].arg.previousMessage
            style == calls[i].arg.styleReference
            user == calls[i].arg.userContent
        IN  /\ Contains(user, "prev") <=> previous = "prev"
            /\ Contains(user, "style") <=> (style = "style" /\ previous = "null")
            /\ user[1] = "Commit log:"

C35_Witness ==
    \E i \in CallsOf("generateTagNotes") :
        /\ calls[i].arg.previousMessage = "prev"
        /\ calls[i].arg.styleReference = "style"
        /\ Contains(calls[i].arg.userContent, "prev")
        /\ calls[i].res

(***************************************************************************)
(* C36: the waiting timer does not outlive its session.                    *)
(***************************************************************************)
\* C36: at most one timer is set, and it is the one of the current attempt;
\* none is set when createStreamingCompletion is about to send a request,
\* has returned or has thrown; in silent mode none is ever set
C36_TimerClearedWithSession ==
    /\ timers <= 1
    /\ timers = IF waitingTimer THEN 1 ELSE 0
    /\ apc \in {"create", "returned", "thrown"} => timers = 0
    /\ ~verbose => timers = 0

C36_Witness ==
    /\ verbose
    /\ attempt = 2
    /\ apc = "stream"
    /\ timers = 1
    /\ chunksSeen = 1

(***************************************************************************)
(* C40: a session is not resumed.                                          *)
(***************************************************************************)
ContentDeltas(log) == {i \in DOMAIN log : log[i].content # <<>>}

\* C40: an attempt starts with no content; the fragments collected are
\* those of the deltas of the session that is running; the text returned
\* after an attempt that had received content failed is the content of the
\* last session only, while the content of a session that failed is dropped
\* with it
C40_SessionNotResumed ==
    /\ apc \in {"create", "pending"} => contentChunks = <<>>
    /\ apc = "stream" =>
          /\ Len(contentChunks) = Cardinality(ContentDeltas(deltaLog))
          /\ Join(contentChunks) = ContentOf(deltaLog)
    /\ discarded =>
          /\ apc \in {"create", "thrown"}
          /\ contentChunks = <<>>
          /\ deltaLog = <<>>
    /\ apc = "returned" =>
          /\ result = ContentOf(deltaLog)
          /\ Len(result) <= MaxChunks

C40_Witness ==
    /\ apc = "create"
    /\ discarded
    /\ attempt = 1
    /\ corrections.token = 1
    /\ contentChunks = <<>>

(***************************************************************************)
(* C37: one kind of push per run.                                          *)
(***************************************************************************)
\* C37: a run does not use both pushTagToRemote and forcePushTag; the kind
\* of push is fixed by the answer to the force-push prompt and is the same
\* for every selected remote, while the remote was asked for the tag at
\* most once
C37_OnePushKind ==
    /\ ~(Called("pushTagToRemote") /\ Called("forcePushTag"))
    /\ \A i \in DOMAIN PushCalls :
          PushCalls[i].op = IF CalledWith("confirmForcePush", TRUE)
                            THEN "forcePushTag" ELSE "pushTagToRemote"
    /\ Cardinality(CallsOf("remoteTagExists")) <= 1
    /\ (tpc = "Done" /\ selectedRemotes # <<>>) =>
          \A k \in DOMAIN selectedRemotes :
              \E i \in DOMAIN PushCalls : PushCalls[i].arg = selectedRemotes[k]

C37_Witness ==
    /\ tpc = "Done"
    /\ Len(selectedRemotes) = 2
    /\ Len(PushCalls) = 2
    /\ PushCalls[1].op = "forcePushTag"
    /\ PushCalls[2].op = "forcePushTag"

(***************************************************************************)
(* C38: the tag is created once, when it is absent locally.                *)
(***************************************************************************)
\* C38: createAnnotatedTag is called at most once, after tagExists returned
\* false or after deleteLocalTag returned true; the remote is asked about the
\* tag only after tagExists returned true and the replacement was confirmed;
\* for a tag that is absent locally the remote is not asked and no force
\* push is offered or made
C38_CreateOnceWhenAbsent ==
    /\ Cardinality(CallsOf("createAnnotatedTag")) <= 1
    /\ \A i \in CallsOf("createAnnotatedTag") :
          \/ CalledWith("tagExists", FALSE)
          \/ \E j \in CallsOf("deleteLocalTag") : j < i /\ calls[j].res
    /\ \A i \in CallsOf("remoteTagExists") :
          /\ \E j \in CallsOf("tagExists") : j < i /\ calls[j].res
          /\ \E j \in CallsOf("confirmTagDelete") : j < i /\ calls[j].res
    /\ CalledWith("tagExists", FALSE) =>
          /\ ~Called("remoteTagExists")
          /\ ~remoteTagExists
          /\ ~Called("confirmForcePush")
          /\ ~Called("forcePushTag")
          /\ ~Called("deleteLocalTag")

C38_Witness ==
    /\ CalledWith("tagExists", FALSE)
    /\ CalledWith("createAnnotatedTag", TRUE)
    /\ CalledWith("pushTagToRemote", TRUE)
    /\ tpc = "Done"

(***************************************************************************)
(* C39: the deletion is not undone.                                        *)
(***************************************************************************)
\* the calls that resolve the message and create the tag
ResolutionCalls ==
    GenerationCalls \cup {"confirmTagCreate", "createAnnotatedTag"}

\* the steps at which a run can end after the deletion without a new tag
EndsWithoutTag(c) ==
    /\ c.op \in ResolutionCalls
    /\ ~c.res

\* C39: the local tag is deleted before anything of the new message is
\* resolved; a step of the resolution or the creation that fails or is
\* declined is the last call of the run; so a run that deleted the tag and
\* ends without having created it ends in Failed (exit 1) or, after a
\* declined create prompt, in Cancelled, with the tag deleted, nothing
\* created and nothing pushed
C39_DeletionNotUndone ==
    /\ \A i \in CallsOf("deleteLocalTag") :
          \A j \in DOMAIN calls : calls[j].op \in ResolutionCalls => i < j
    /\ \A i \in DOMAIN calls :
          EndsWithoutTag(calls[i]) =>
             /\ i = Len(calls)
             /\ tpc = IF calls[i].op = "confirmTagCreate"
                      THEN "Cancelled" ELSE "Failed"
    /\ (TagRunOver /\ CalledWith("deleteLocalTag", TRUE)
          /\ ~CalledWith("createAnnotatedTag", TRUE)) =>
             /\ EndsWithoutTag(calls[Len(calls)])
             /\ exitCode = IF tpc = "Failed" THEN 1 ELSE 0
             /\ PushCalls = <<>>
             /\ Cardinality(CallsOf("deleteLocalTag")) = 1

C39_Witness ==
    /\ tpc = "Failed"
    /\ CalledWith("deleteLocalTag", TRUE)
    /\ CalledWith("createAnnotatedTag", FALSE)
    /\ exitCode = 1
====
